---------------------------- MODULE Spec2Model ----------------------------
(***************************************************************************)
(* A model of the sentiment-analysis streaming pipeline:                   *)
(*   - worker/worker.py      SentimentWorker (stream consumer)             *)
(*   - worker/processor.py   save_post_and_analysis (persistence adapter)  *)
(*   - backend/services/sentiment_analyzer.py   SentimentAnalyzer          *)
(*   - backend/services/aggregator.py           AggregatorService          *)
(*   - backend/services/alerting.py             AlertService               *)
(* Confidence scores, percentages and thresholds are integers in          *)
(* hundredths; instants are integers in seconds.                           *)
(***************************************************************************)
EXTENDS Integers, Sequences, FiniteSets, TLC

VARIABLES
    stream,          \* the Redis stream: sequence of entries, entry id = index
    group,           \* the consumer group: [exists, last, pel]
    wpc,             \* per worker: "start" | "poll" | "proc" | "crashed"
    analyzer,        \* per worker: self.analyzer is constructed
    tasks,           \* per worker: entry id -> process_message coroutine state
    posts,           \* committed social_media_posts rows, post_id -> row
    analyses,        \* committed sentiment_analysis rows, in insertion order
    now,             \* the wall clock, seconds
    hist,            \* history: deliveries, acknowledgements, outcomes
    cache,           \* the Redis cache: key -> [value, at, expires, by]
    reqs,            \* the AggregatorService calls in flight
    alerts,          \* committed sentiment_alerts rows, in insertion order
    mon,             \* run_monitoring_loop: its position and alert_data
    conf,            \* AlertService configuration read from the environment
    clf,             \* a SentimentAnalyzer instance: [model_type, api_key]
    call             \* the call of one of its entry points, and its outcome

vars == <<stream, group, wpc, analyzer, tasks, posts, analyses, now, hist,
          cache, reqs, alerts, mon, conf, clf, call>>

pipeVars == <<stream, group, wpc, analyzer, tasks, hist>>
aggVars == <<cache, reqs>>
alertVars == <<alerts, mon, conf>>
clfVars == <<clf, call>>

-----------------------------------------------------------------------------
(* Bounds of the model *)

MaxMsgs == 2
MaxTime == 1

Workers == {"w1", "w2"}

(* Program constants *)
BatchSize == 10

-----------------------------------------------------------------------------
(* Values *)

Min(a, b) == IF a < b THEN a ELSE b

\* Two stream entries of the same post p1, with different source, content,
\* author and created_at.
EntryShort ==
    [post_id |-> "p1", source |-> "twitter", content |-> "so bad",
     author |-> "ann", created_at |-> "2025-01-15T10:30:00+00:00Z"]

EntryLong ==
    [post_id |-> "p1", source |-> "reddit", content |-> "what a lovely day",
     author |-> "bob", created_at |-> "2025-01-16T08:00:00"]

\* An entry with empty content.
EntryEmpty ==
    [post_id |-> "p2", source |-> "twitter", content |-> "",
     author |-> "cat", created_at |-> "2025-01-15T10:30:00+00:00Z"]

\* An entry whose created_at is not ISO-8601.
EntryBadDate ==
    [post_id |-> "p2", source |-> "all", content |-> "nothing much happened",
     author |-> "dan", created_at |-> "yesterday"]

\* The entries the ingester publishes in the pipeline specification, and the
\* post payloads saved in the persistence specification.
Entries == {EntryShort, EntryLong, EntryEmpty}

SaveEntries == {EntryShort, EntryLong, EntryBadDate}

\* Strings datetime.fromisoformat accepts, among those of the model.
IsoStrings == {"2025-01-15T10:30:00+00:00", "2025-01-16T08:00:00"}

\* Raw outputs of the local text-classification pipelines.
SentimentPipeOutputs ==
    { [label |-> "NEGATIVE", score |-> 87],
      [label |-> "LABEL_1",  score |-> 55] }

EmotionPipeOutputs == { [label |-> "joy", score |-> 91] }

\* str.lower() on the labels of the model.
Lower(s) ==
    CASE s = "POSITIVE" -> "positive"
      [] s = "NEGATIVE" -> "negative"
      [] s = "LABEL_1"  -> "label_1"
      [] OTHER -> s

Raised == [raised |-> TRUE]

-----------------------------------------------------------------------------
(* SentimentAnalyzer, local variant *)

\* The sentiment pipeline's label lower-cased and stored as it is.
FoldLabelNever(label) == label

\* final_label: positive and negative are kept, every other label is neutral.
FoldLabel(label) ==
    IF label = "positive" \/ label = "negative" THEN label ELSE "neutral"

\* analyze_sentiment(text); out is what sentiment_pipe returns for text[:512],
\* or Raised when the pipeline raises.
AnalyzeSentimentLocal(text, out) ==
    IF text = "" THEN
        [raised |-> FALSE, sentiment_label |-> "neutral",
         confidence_score |-> 0, model_name |-> "none", invoked |-> FALSE]
    ELSE IF out = Raised THEN
        [raised |-> TRUE, invoked |-> TRUE]
    ELSE
        LET label == Lower(out.label) IN
        [raised |-> FALSE,
         sentiment_label |-> FoldLabel(label),
         confidence_score |-> out.score,
         model_name |-> "distilbert-sst-2", invoked |-> TRUE]

\* analyze_emotion(text); out is what emotion_pipe returns, or Raised.
AnalyzeEmotionLocal(text, out) ==
    IF text = "" THEN
        [raised |-> TRUE, invoked |-> FALSE]
    ELSE IF Len(text) < 10 THEN
        [raised |-> FALSE, emotion |-> "neutral", confidence_score |-> 100,
         model_name |-> "rule-based", invoked |-> FALSE]
    ELSE IF out = Raised THEN
        [raised |-> TRUE, invoked |-> TRUE]
    ELSE
        [raised |-> FALSE, emotion |-> Lower(out.label),
         confidence_score |-> out.score,
         model_name |-> "emotion-distilroberta", invoked |-> TRUE]


-----------------------------------------------------------------------------
(* save_post_and_analysis: the persistence adapter *)

\* created_at.rstrip('Z'): every trailing 'Z' is removed.
RECURSIVE RStripZ(_)
RStripZ(s) ==
    IF Len(s) > 0 /\ SubSeq(s, Len(s), Len(s)) = "Z"
    THEN RStripZ(SubSeq(s, 1, Len(s) - 1))
    ELSE s

\* datetime.fromisoformat(created_at.rstrip('Z')): the parsed value, or Raised.
ParseCreatedAt(s) ==
    LET t == RStripZ(s) IN
    IF t \in IsoStrings THEN [raised |-> FALSE, value |-> t] ELSE Raised

\* The row a conflicting upsert would store with every column overwritten.
UpsertOverwriting(ps, data, created, ts, srv) ==
    (data.post_id :> [post_id |-> data.post_id, source |-> data.source,
                      content |-> data.content, author |-> data.author,
                      created_at |-> created,
                      ingested_at |-> IF data.post_id \in DOMAIN ps
                                      THEN ts ELSE srv])

\* INSERT ... ON CONFLICT (post_id) DO UPDATE SET ingested_at = ts.
\* The result maps the one post_id to the row the statement leaves; ts is the
\* client clock read when the statement was built, srv the server clock of
\* the insert (the column default).
UpsertPost(ps, data, created, ts, srv) ==
    IF data.post_id \in DOMAIN ps
    THEN (data.post_id :> [ps[data.post_id] EXCEPT !.ingested_at = ts])
    ELSE (data.post_id :> [post_id |-> data.post_id, source |-> data.source,
                           content |-> data.content, author |-> data.author,
                           created_at |-> created, ingested_at |-> srv])

\* The SentimentAnalysis row built from the two classifier results.
AnalysisRow(data, sentiment, emotion, srv) ==
    [post_id |-> data.post_id,
     model_name |-> sentiment.model_name,
     sentiment_label |-> sentiment.sentiment_label,
     confidence_score |-> sentiment.confidence_score,
     emotion |-> emotion.emotion,
     analyzed_at |-> srv]

\* An insert that keeps one analysis row per post_id.
InsertDeduplicated(rows, row) ==
    IF \E i \in 1..Len(rows) : rows[i].post_id = row.post_id
    THEN [i \in 1..Len(rows) |->
            IF rows[i].post_id = row.post_id THEN row ELSE rows[i]]
    ELSE Append(rows, row)

\* db_session.add(analysis): a plain INSERT, no uniqueness constraint.
InsertAnalysis(rows, row) == Append(rows, row)

\* What other sessions see of an executed, uncommitted statement when the
\* statement is committed at once.
VisibleAutocommit(ps, written) == written @@ ps

\* What other sessions see of the upsert between execute() and commit():
\* nothing, the session's transaction is still open.
VisibleBeforeCommit(ps, written) == ps

-----------------------------------------------------------------------------
(* SentimentWorker: the stream consumer *)

MsgIds == 1..MaxMsgs

NoTask == [pc |-> "none"]

\* The task a worker holds for entry id, or NoTask.
TaskOf(w, id) == IF id \in DOMAIN tasks[w] THEN tasks[w][id] ELSE NoTask

\* The entries XREADGROUP would return if it read the stream from its start.
ReadFromStart(last, len) == 1..Min(BatchSize, len)

\* XREADGROUP GROUP g c COUNT batch_size STREAMS s '>': the entries after the
\* group's last-delivered id, never delivered to any consumer of the group.
ReadNew(last, len) == (last + 1)..Min(last + BatchSize, len)

\* process_message with the acknowledgement sent before the save.
StepAfterAckFirst(pc) ==
    CASE pc = "start"  -> "ack"
      [] pc = "ack"    -> "upsert"
      [] pc = "upsert" -> "commit"
      [] pc = "commit" -> "done"

\* The order of the awaited steps of process_message: classify, execute the
\* upsert, commit, acknowledge, return True.
StepAfter(pc) ==
    CASE pc = "start"  -> "upsert"
      [] pc = "upsert" -> "commit"
      [] pc = "commit" -> "ack"
      [] pc = "ack"    -> "done"

\* process_message returned ok for entry id: the coroutine is finished.
\* h is the history up to the return.
Finished(w, id, ok, h) ==
    /\ tasks' = [tasks EXCEPT ![w][id] =
                    [pc |-> "done", result |-> ok, at |-> TaskOf(w, id).pc]]
    /\ hist' = [h EXCEPT
                  !.failed = IF ok THEN @ ELSE @ \cup {id},
                  !.succeeded = IF ok THEN @ \cup {id} ELSE @]

\* Moves the task to the step after t.pc; after the last step
\* process_message returns True.
Advance(w, id, t, h) ==
    IF StepAfter(t.pc) = "done"
    THEN Finished(w, id, TRUE, h)
    ELSE /\ tasks' = [tasks EXCEPT ![w][id] = [t EXCEPT !.pc = StepAfter(t.pc)]]
         /\ hist' = h

\* The ingester publishes an entry (XADD).
XAdd(e) ==
    /\ Len(stream) < MaxMsgs
    /\ stream' = Append(stream, e)
    /\ UNCHANGED <<group, wpc, analyzer, tasks, posts, analyses, now, hist,
                   aggVars, alertVars, clfVars>>

\* setup(): XGROUP CREATE ... MKSTREAM; whatever it raises is swallowed.
\* up = FALSE: the broker is unreachable and the call raises.
Setup(w, up) ==
    /\ wpc[w] = "start"
    /\ group' = IF up /\ ~group.exists
                THEN [exists |-> TRUE, last |-> Len(stream), pel |-> {}]
                ELSE group
    /\ wpc' = [wpc EXCEPT ![w] = "poll"]
    /\ UNCHANGED <<stream, analyzer, tasks, posts, analyses, now, hist, aggVars, alertVars, clfVars>>

\* run(): one XREADGROUP that returns (entries, or nothing after the block
\* timeout); the batch becomes one process_message coroutine per entry.
XReadGroup(w) ==
    /\ wpc[w] = "poll"
    /\ group.exists
    /\ LET ids == ReadNew(group.last, Len(stream)) IN
       /\ group' = [group EXCEPT
                      !.last = IF ids = {} THEN @ ELSE Min(@ + BatchSize, Len(stream)),
                      !.pel = @ \cup {<<id, w>> : id \in ids}]
       /\ tasks' = [tasks EXCEPT ![w] = [id \in ids |-> [pc |-> "start"]]]
       /\ wpc' = [wpc EXCEPT ![w] = IF ids = {} THEN "poll" ELSE "proc"]
       /\ hist' = [hist EXCEPT
                     !.delivered = [id \in MsgIds |->
                                      IF id \in ids THEN @[id] + 1 ELSE @[id]],
                     !.redelivered = @ \cup (ids \cap hist.succeeded),
                     !.polledAfter = @ \cup DOMAIN tasks[w]]
    /\ UNCHANGED <<stream, analyzer, posts, analyses, now, aggVars, alertVars, clfVars>>

\* run(): XREADGROUP raises (no such group, or the broker is unreachable);
\* run() has no handler, the worker ends.
XReadGroupRaises(w) ==
    /\ wpc[w] = "poll"
    /\ wpc' = [wpc EXCEPT ![w] = "crashed"]
    /\ UNCHANGED <<stream, group, analyzer, tasks, posts, analyses, now, hist,
                   aggVars, alertVars, clfVars>>

\* A _get_analyzer that builds an instance on every call.
NeedsConstructionAlways(has) == TRUE

\* _get_analyzer: `if self.analyzer is None`, the instance is built.
NeedsConstruction(has) == ~has

\* What the synchronous head of process_message can come to for an entry:
\* both classifications and, in save_post_and_analysis, the created_at parse.
\* Raised when any of them raises.
StartOutcomes(data) ==
    { LET s == AnalyzeSentimentLocal(data.content, so)
          e == AnalyzeEmotionLocal(data.content, eo)
          c == ParseCreatedAt(data.created_at)
      IN  IF s.raised \/ e.raised \/ c.raised
          THEN Raised
          ELSE [raised |-> FALSE, sentiment |-> s, emotion |-> e,
                created_at |-> c.value]
      : so \in SentimentPipeOutputs \cup {Raised},
        eo \in EmotionPipeOutputs \cup {Raised} }

\* process_message up to its first suspension: _get_analyzer (built when
\* self.analyzer is None; built = FALSE: the constructor raises),
\* analyze_sentiment, analyze_emotion, the created_at parse and the upsert
\* statement with the client clock.
TaskStart(w, id, built, o) ==
    /\ wpc[w] = "proc"
    /\ TaskOf(w, id).pc = "start"
    /\ o \in StartOutcomes(stream[id])
    /\ ~NeedsConstruction(analyzer[w]) => built
    /\ analyzer' = [analyzer EXCEPT ![w] =
                       IF NeedsConstruction(@) /\ built THEN TRUE ELSE @]
    /\ LET h == [hist EXCEPT
                   !.constructed[w] =
                      IF NeedsConstruction(analyzer[w]) /\ built THEN @ + 1 ELSE @]
       IN  IF ~built \/ o.raised
           THEN Finished(w, id, FALSE, h)
           ELSE Advance(w, id,
                        [pc |-> "start", sentiment |-> o.sentiment,
                         emotion |-> o.emotion, created_at |-> o.created_at,
                         ts |-> now, written |-> << >>], h)
    /\ UNCHANGED <<stream, group, wpc, posts, analyses, now, aggVars, alertVars, clfVars>>

\* Another open transaction has written the post row and holds its lock.
RowLocked(w, id) ==
    \E w2 \in Workers : \E id2 \in DOMAIN tasks[w2] :
        /\ <<w2, id2>> # <<w, id>>
        /\ tasks[w2][id2].pc \notin {"start", "done"}
        /\ stream[id].post_id \in DOMAIN tasks[w2][id2].written

\* await db_session.execute(stmt): the store executes the upsert in the
\* session's transaction (ok), or the statement raises and the session is
\* closed, which rolls the transaction back.
TaskUpsert(w, id, ok) ==
    /\ wpc[w] = "proc"
    /\ TaskOf(w, id).pc = "upsert"
    /\ ~RowLocked(w, id)
    /\ LET t == tasks[w][id]
           written == UpsertPost(posts, stream[id], t.created_at, t.ts, now)
       IN  IF ok
           THEN /\ posts' = VisibleBeforeCommit(posts, written)
                /\ Advance(w, id, [t EXCEPT !.written = written], hist)
           ELSE /\ posts' = posts
                /\ Finished(w, id, FALSE, hist)
    /\ UNCHANGED <<stream, group, wpc, analyzer, analyses, now, aggVars, alertVars, clfVars>>

\* db_session.add(analysis); await db_session.commit(): the insert is flushed
\* and the transaction commits (ok), or it raises and is rolled back.
TaskCommit(w, id, ok) ==
    /\ wpc[w] = "proc"
    /\ TaskOf(w, id).pc = "commit"
    /\ LET t == tasks[w][id] IN
       IF ok
       THEN /\ posts' = t.written @@ posts
            /\ analyses' = InsertAnalysis(analyses,
                              AnalysisRow(stream[id], t.sentiment, t.emotion, now))
            /\ Advance(w, id, [t EXCEPT !.written = << >>],
                       [hist EXCEPT
                          !.saved = @ \cup {id},
                          !.first = IF stream[id].post_id \in DOMAIN @
                                    THEN @ ELSE (stream[id].post_id :> id) @@ @])
       ELSE /\ UNCHANGED <<posts, analyses>>
            /\ Finished(w, id, FALSE, hist)
    /\ UNCHANGED <<stream, group, wpc, analyzer, now, aggVars, alertVars, clfVars>>

\* A failed acknowledgement that removes the entry all the same.
AckFailedStillAcks(pel, id) == {p \in pel : p[1] # id}

\* xack raised: the pending list of the group is as it was.
AckFailed(pel, id) == pel

\* await self.redis.xack(...): the entry leaves the pending list (ok), or the
\* call raises and process_message returns False.
TaskAck(w, id, ok) ==
    /\ wpc[w] = "proc"
    /\ TaskOf(w, id).pc = "ack"
    /\ IF ok
       THEN /\ group' = [group EXCEPT !.pel = {p \in @ : p[1] # id}]
            /\ Advance(w, id, tasks[w][id], [hist EXCEPT !.acks = @ \cup {id}])
       ELSE /\ group' = [group EXCEPT !.pel = AckFailed(@, id)]
            /\ Finished(w, id, FALSE, hist)
    /\ UNCHANGED <<stream, wpc, analyzer, posts, analyses, now, aggVars, alertVars, clfVars>>

\* A run() that ends when a message of the batch has failed.
AfterBatchStopsOnFailure(results) ==
    IF FALSE \in results THEN "crashed" ELSE "poll"

\* run() after asyncio.gather: the results are dropped and the while True
\* loop goes back to XREADGROUP.
AfterBatch(results) == "poll"

\* asyncio.gather returns once every coroutine of the batch has returned;
\* run() loops back to XREADGROUP.
GatherDone(w) ==
    /\ wpc[w] = "proc"
    /\ \A id \in DOMAIN tasks[w] : tasks[w][id].pc = "done"
    /\ wpc' = [wpc EXCEPT ![w] =
                  AfterBatch({tasks[w][id].result : id \in DOMAIN tasks[w]})]
    /\ UNCHANGED <<stream, group, analyzer, tasks, posts, analyses, now, hist,
                   aggVars, alertVars, clfVars>>

\* Time passes.
Tick ==
    /\ now < MaxTime
    /\ now' = now + 1
    /\ UNCHANGED <<stream, group, wpc, analyzer, tasks, posts, analyses, hist,
                   aggVars, alertVars, clfVars>>

-----------------------------------------------------------------------------
(* The pipeline: the ingester and the workers of one consumer group *)

NoHistory ==
    [delivered |-> [id \in MsgIds |-> 0], acks |-> {}, failed |-> {},
     succeeded |-> {}, redelivered |-> {}, polledAfter |-> {},
     saved |-> {}, first |-> << >>,
     constructed |-> [w \in Workers |-> 0]]

Init ==
    /\ stream = << >>
    /\ group = [exists |-> FALSE, last |-> 0, pel |-> {}]
    /\ wpc = [w \in Workers |-> "start"]
    /\ analyzer = [w \in Workers |-> FALSE]
    /\ tasks = [w \in Workers |-> << >>]
    /\ posts = << >>
    /\ analyses = << >>
    /\ now = 0
    /\ hist = NoHistory
    /\ cache = << >>
    /\ reqs = << >>
    /\ alerts = << >>
    /\ mon = [pc |-> "off"]
    /\ conf = [set |-> FALSE]
    /\ clf = [set |-> FALSE]
    /\ call = [pc |-> "idle"]

TaskStep(w, id) ==
    \/ \E built \in BOOLEAN :
          \E o \in UNION {StartOutcomes(e) : e \in Entries \cup SaveEntries} :
              TaskStart(w, id, built, o)
    \/ \E ok \in BOOLEAN : TaskUpsert(w, id, ok)
    \/ \E ok \in BOOLEAN : TaskCommit(w, id, ok)
    \/ \E ok \in BOOLEAN : TaskAck(w, id, ok)

Next ==
    \/ \E e \in Entries : XAdd(e)
    \/ \E w \in Workers, up \in BOOLEAN : Setup(w, up)
    \/ \E w \in Workers : XReadGroup(w)
    \/ \E w \in Workers : XReadGroupRaises(w)
    \/ \E w \in Workers, id \in MsgIds : TaskStep(w, id)
    \/ \E w \in Workers : GatherDone(w)

Spec == Init /\ [][Next]_vars

-----------------------------------------------------------------------------
(* The persistence adapter under concurrent saves: one worker whose batch   *)
(* holds every entry of the stream, and the clock                           *)

InitSave ==
    /\ stream \in [MsgIds -> SaveEntries]
    /\ group = [exists |-> TRUE, last |-> 0, pel |-> {}]
    /\ wpc = [w \in Workers |-> IF w = "w1" THEN "poll" ELSE "start"]
    /\ analyzer = [w \in Workers |-> FALSE]
    /\ tasks = [w \in Workers |-> << >>]
    /\ posts = << >>
    /\ analyses = << >>
    /\ now = 0
    /\ hist = NoHistory
    /\ cache = << >>
    /\ reqs = << >>
    /\ alerts = << >>
    /\ mon = [pc |-> "off"]
    /\ conf = [set |-> FALSE]
    /\ clf = [set |-> FALSE]
    /\ call = [pc |-> "idle"]

NextSave ==
    \/ XReadGroup("w1")
    \/ \E id \in MsgIds : TaskStep("w1", id)
    \/ GatherDone("w1")
    \/ Tick

SpecSave == InitSave /\ [][NextSave]_vars

-----------------------------------------------------------------------------
(* AggregatorService: the read path and its cache *)

\* The calls are modelled one at a time; saves and the clock interleave with
\* the steps of a call.
Requests == {"r1"}

\* Bounds of the aggregator specification.
MaxRows == 1
ClockStep == 30
MaxClock == 60
MaxSaveTime == 0

\* Program constants: the cache expiry of setex, the default look-back of
\* get_sentiment_aggregate in hours, and the seconds of the periods of
\* date_trunc and of timedelta(hours=1).
CacheTtl == 60
DefaultRangeHours == 24
MinuteSeconds == 60
HourSeconds == 3600
DaySeconds == 86400

\* The source argument: "" stands for an omitted (None) source, which the
\* code tests by truthiness; "all" is a platform literally named all.
Sources == {"", "all"}
Hours == {24}
Periods == {"minute"}

\* An entry of platform "all", and the payloads the worker has saved in
\* the aggregator specification.
EntryAll ==
    [post_id |-> "p3", source |-> "all", content |-> "what a lovely day",
     author |-> "eve", created_at |-> "2025-01-16T08:00:00"]

AggEntries == {EntryShort, EntryAll}

SentimentLabels == {"positive", "negative", "neutral"}

\* datetime.isoformat() of an instant.
IsoFormat(t) == ToString(t)

\* round(n / d, 0) of Python: to the nearest integer, ties to even.
RoundHalfEven(n, d) ==
    LET q == n \div d
        r == n % d
    IN  IF 2 * r < d THEN q
        ELSE IF 2 * r > d THEN q + 1
        ELSE IF q % 2 = 0 THEN q ELSE q + 1

\* A percentage cut after its second decimal.
PercentageTruncated(count, total) == (count * 10000) \div total

\* round((count / total) * 100, 2), in hundredths of a percent.
Percentage(count, total) == RoundHalfEven(count * 10000, total)

\* f"sentiment_cache:distribution:{hours}:{source or 'all'}"
DistributionKey(hours, source) ==
    "sentiment_cache:distribution:" \o ToString(hours) \o ":"
        \o (IF source # "" THEN source ELSE "all")

\* f"sentiment_cache:aggregate:{period}:{source or 'all'}:{start}:{end}"
AggregateKey(period, source, start, end) ==
    "sentiment_cache:aggregate:" \o period \o ":"
        \o (IF source # "" THEN source ELSE "all") \o ":"
        \o IsoFormat(start) \o ":" \o IsoFormat(end)

NoEntry == [hit |-> FALSE]

\* redis.get(key) at instant t: the value of an entry that has not expired.
CacheLookup(c, key, t) ==
    IF key \in DOMAIN c /\ t < c[key].expires
    THEN [hit |-> TRUE, value |-> c[key].value, at |-> c[key].at,
          by |-> c[key].by]
    ELSE NoEntry

\* A write whose expiry is taken in minutes.
SetExMinutes(c, key, ttl, value, t, by) ==
    (key :> [value |-> value, at |-> t, expires |-> t + ttl * 60,
             by |-> by]) @@ c

\* redis.setex(key, ttl, value) at instant t. The entry also records, as
\* history, the instant of the write and the arguments of the writing call.
SetEx(c, key, ttl, value, t, by) ==
    (key :> [value |-> value, at |-> t, expires |-> t + ttl, by |-> by]) @@ c

\* The analysis rows joined to their post, analyzed at or after from, of the
\* given source when one is given.
SelectedSince(from, source) ==
    { i \in 1..Len(analyses) :
        /\ analyses[i].post_id \in DOMAIN posts
        /\ analyses[i].analyzed_at >= from
        /\ source # "" => posts[analyses[i].post_id].source = source }

\* The same, analyzed no later than to.
SelectedBetween(from, to, source) ==
    { i \in SelectedSince(from, source) : analyses[i].analyzed_at <= to }

\* SELECT sentiment_label, count(id) ... GROUP BY sentiment_label, read as
\* sentiment_counts.get(label, 0).
LabelCount(rows, label) ==
    Cardinality({i \in rows : analyses[i].sentiment_label = label})

\* _calculate_percentages
CalculatePercentages(distribution, total) ==
    IF total > 0
    THEN [positive |-> Percentage(distribution.positive, total),
          negative |-> Percentage(distribution.negative, total),
          neutral  |-> Percentage(distribution.neutral, total)]
    ELSE [positive |-> 0, negative |-> 0, neutral |-> 0]

\* _get_top_emotions: the (at most five) most frequent emotions with their
\* counts.
TopEmotions(rows) ==
    LET present == {analyses[i].emotion : i \in rows}
        count(e) == Cardinality({i \in rows : analyses[i].emotion = e})
        top == IF Cardinality(present) <= 5 THEN present
               ELSE CHOOSE S \in SUBSET present :
                      /\ Cardinality(S) = 5
                      /\ \A e \in S : \A f \in present \ S : count(e) >= count(f)
    IN  [e \in top |-> count(e)]

\* The response get_sentiment_distribution computes from the store.
DistributionResponse(hours, source, counted, emotions, t) ==
    LET distribution == [positive |-> LabelCount(counted, "positive"),
                         negative |-> LabelCount(counted, "negative"),
                         neutral  |-> LabelCount(counted, "neutral")]
        total == distribution.positive + distribution.negative
                    + distribution.neutral
    IN  [timeframe_hours |-> hours, source |-> source,
         distribution |-> distribution, total |-> total,
         percentages |-> CalculatePercentages(distribution, total),
         top_emotions |-> emotions, cached |-> FALSE,
         cached_at |-> IsoFormat(t)]

\* json.dumps / json.loads of a distribution response: the members in order.
DistributionDumps(r) ==
    <<r.timeframe_hours, r.source, r.distribution, r.total, r.percentages,
      r.top_emotions, r.cached, r.cached_at>>

DistributionLoads(v) ==
    [timeframe_hours |-> v[1], source |-> v[2], distribution |-> v[3],
     total |-> v[4], percentages |-> v[5], top_emotions |-> v[6],
     cached |-> v[7], cached_at |-> v[8]]

\* date_trunc(period, t): the start of the calendar interval holding t.
PeriodSeconds(period) ==
    CASE period = "minute" -> MinuteSeconds
      [] period = "hour"   -> HourSeconds
      [] period = "day"    -> DaySeconds

DateTrunc(period, t) == t - (t % PeriodSeconds(period))

\* The elements of a finite set of integers in increasing order:
\* sorted(time_buckets.keys()).
RECURSIVE Sorted(_)
Sorted(S) ==
    IF S = {} THEN << >>
    ELSE LET m == CHOOSE x \in S : \A y \in S : x <= y
         IN  <<m>> \o Sorted(S \ {m})

RECURSIVE SumConfidence(_)
SumConfidence(rows) ==
    IF rows = {} THEN 0
    ELSE LET i == CHOOSE x \in rows : TRUE
         IN  analyses[i].confidence_score + SumConfidence(rows \ {i})

\* _organize_by_timestamp for one time bucket b of the query's rows: the
\* counts per label, their total, and the confidence sum and count.
OrganizeBucket(period, rows, b) ==
    LET inside == {i \in rows : DateTrunc(period, analyses[i].analyzed_at) = b}
    IN  [timestamp |-> IsoFormat(b),
         positive_count |-> LabelCount(inside, "positive"),
         negative_count |-> LabelCount(inside, "negative"),
         neutral_count |-> LabelCount(inside, "neutral"),
         total_count |-> Cardinality(inside),
         confidence_sum |-> SumConfidence(inside),
         confidence_count |-> Cardinality(inside)]

\* _calculate_percentages_and_summary for one bucket: the entry of data.
BucketData(bucket) ==
    LET total == bucket.total_count
        some == total > 0
    IN  [timestamp |-> bucket.timestamp,
         positive_count |-> bucket.positive_count,
         negative_count |-> bucket.negative_count,
         neutral_count |-> bucket.neutral_count,
         total_count |-> total,
         positive_percentage |->
             IF some THEN Percentage(bucket.positive_count, total) ELSE 0,
         negative_percentage |->
             IF some THEN Percentage(bucket.negative_count, total) ELSE 0,
         neutral_percentage |->
             IF some THEN Percentage(bucket.neutral_count, total) ELSE 0,
         average_confidence |->
             IF some /\ bucket.confidence_count > 0
             THEN RoundHalfEven(bucket.confidence_sum, bucket.confidence_count)
             ELSE 0]

\* The response get_sentiment_aggregate computes from the rows of its query:
\* one entry of data per time bucket that has rows, in time order, and the
\* summary over them.
AggregateResponse(period, start, end, rows) ==
    LET buckets == Sorted({DateTrunc(period, analyses[i].analyzed_at) : i \in rows})
    IN  [period |-> period,
         start_date |-> IsoFormat(start),
         end_date |-> IsoFormat(end),
         data |-> [k \in 1..Len(buckets) |->
                      BucketData(OrganizeBucket(period, rows, buckets[k]))],
         summary |-> [total_posts |-> Cardinality(rows),
                      positive_total |-> LabelCount(rows, "positive"),
                      negative_total |-> LabelCount(rows, "negative"),
                      neutral_total |-> LabelCount(rows, "neutral")]]

\* json.dumps / json.loads of an aggregate response: the members in order.
AggregateDumps(r) == <<r.period, r.start_date, r.end_date, r.data, r.summary>>

AggregateLoads(v) ==
    [period |-> v[1], start_date |-> v[2], end_date |-> v[3], data |-> v[4],
     summary |-> v[5]]

Idle == [pc |-> "idle"]

\* A date argument: omitted (None), or the instant given.
Omitted == [given |-> FALSE]
Given(t) == [given |-> TRUE, at |-> t]

\* The call goes on to the store: threshold = now - timedelta(hours).
EnterQuery(req) ==
    IF req.kind = "distribution"
    THEN [req EXCEPT !.pc = "query", !.threshold = now - req.hours * HourSeconds]
    ELSE [req EXCEPT !.pc = "query"]

\* A cache read error that is not handled: the call raises.
GetErrorPropagates(req) ==
    [req EXCEPT !.pc = "done", !.getRaised = TRUE, !.raised = TRUE]

\* The except clause around redis.get: the error is printed and the call
\* goes on as after a miss.
GetErrorSwallowed(req) == EnterQuery([req EXCEPT !.getRaised = TRUE])

\* The except clause around redis.setex: the error is printed and the
\* computed response is returned.
SetErrorSwallowed(req) == [req EXCEPT !.pc = "done", !.setRaised = TRUE]

\* A hit that is returned and recomputed all the same.
HitStillQueries(req, entry, response) ==
    [req EXCEPT !.pc = "done", !.found = entry, !.response = response,
                !.queried = TRUE]

\* A cache hit: the stored payload is returned, the store is not queried.
HitReturns(req, entry, response) ==
    [req EXCEPT !.pc = "done", !.found = entry, !.response = response]

\* get_sentiment_distribution(hours, source) is called on a service with
\* (redis) or without a cache client.
DistributionCall(r, hours, source, redis) ==
    /\ reqs[r].pc = "idle"
    /\ LET req == [pc |-> "get", kind |-> "distribution", redis |-> redis,
                   hours |-> hours, source |-> source,
                   key |-> DistributionKey(hours, source),
                   found |-> NoEntry, getRaised |-> FALSE,
                   setRaised |-> FALSE, raised |-> FALSE, queried |-> FALSE,
                   threshold |-> 0, counted |-> {}, seen |-> 0,
                   response |-> << >>]
       IN  reqs' = [reqs EXCEPT ![r] = IF redis THEN req ELSE EnterQuery(req)]
    /\ UNCHANGED <<pipeVars, posts, analyses, now, cache, alertVars, clfVars>>

\* await self.redis.get(cache_key): a hit returns the stored payload with
\* cached = True; a miss or an error goes on to the store.
DistributionGet(r, ok) ==
    /\ reqs[r].pc = "get"
    /\ reqs[r].kind = "distribution"
    /\ LET req == reqs[r]
           entry == CacheLookup(cache, req.key, now)
       IN  reqs' = [reqs EXCEPT ![r] =
              IF ~ok THEN GetErrorSwallowed(req)
              ELSE IF entry.hit
              THEN HitReturns(req, entry,
                      [DistributionLoads(entry.value) EXCEPT !.cached = TRUE])
              ELSE EnterQuery(req)]
    /\ UNCHANGED <<pipeVars, posts, analyses, now, cache, alertVars, clfVars>>

\* The sentiment count query.
DistributionCount(r) ==
    /\ reqs[r].pc = "query"
    /\ reqs[r].kind = "distribution"
    /\ LET req == reqs[r] IN
       reqs' = [reqs EXCEPT ![r] =
          [req EXCEPT !.pc = "emotions", !.queried = TRUE,
                      !.seen = Len(analyses),
                      !.counted = SelectedSince(req.threshold, req.source)]]
    /\ UNCHANGED <<pipeVars, posts, analyses, now, cache, alertVars, clfVars>>

\* The emotion query, and the response built from both results.
DistributionEmotions(r) ==
    /\ reqs[r].pc = "emotions"
    /\ LET req == reqs[r]
           emotions == TopEmotions(SelectedSince(req.threshold, req.source))
       IN  reqs' = [reqs EXCEPT ![r] =
              [req EXCEPT !.pc = IF req.redis THEN "set" ELSE "done",
                          !.response = DistributionResponse(req.hours, req.source,
                                           req.counted, emotions, now)]]
    /\ UNCHANGED <<pipeVars, posts, analyses, now, cache, alertVars, clfVars>>

\* await self.redis.setex(cache_key, 60, json.dumps(response))
DistributionSet(r, ok) ==
    /\ reqs[r].pc = "set"
    /\ reqs[r].kind = "distribution"
    /\ LET req == reqs[r] IN
       IF ok
       THEN /\ cache' = SetEx(cache, req.key, CacheTtl,
                              DistributionDumps(req.response), now,
                              <<req.hours, req.source>>)
            /\ reqs' = [reqs EXCEPT ![r] = [req EXCEPT !.pc = "done"]]
       ELSE /\ cache' = cache
            /\ reqs' = [reqs EXCEPT ![r] = SetErrorSwallowed(req)]
    /\ UNCHANGED <<pipeVars, posts, analyses, now, alertVars, clfVars>>

\* A default end cut to the start of its day.
DefaultEndOfDay(t) == t - (t % DaySeconds)

\* end_date = datetime.now(timezone.utc), read at instant t.
DefaultEnd(t) == t

\* get_sentiment_aggregate(period, start_date, end_date, source): the dates
\* default to now and to 24 hours before the end. As history, clockRead
\* keeps the instant of the call when the end was omitted.
AggregateCall(r, period, start, end, source, redis) ==
    /\ reqs[r].pc = "idle"
    /\ LET end_date == IF end.given THEN end.at ELSE DefaultEnd(now)
           start_date == IF start.given THEN start.at
                         ELSE end_date - DefaultRangeHours * HourSeconds
           req == [pc |-> "get", kind |-> "aggregate", redis |-> redis,
                   period |-> period, source |-> source,
                   start |-> start_date, end |-> end_date,
                   clockRead |-> IF end.given THEN Omitted ELSE Given(now),
                   key |-> AggregateKey(period, source, start_date, end_date),
                   found |-> NoEntry, getRaised |-> FALSE,
                   setRaised |-> FALSE, raised |-> FALSE, queried |-> FALSE,
                   seen |-> 0, response |-> << >>]
       IN  reqs' = [reqs EXCEPT ![r] = IF redis THEN req ELSE EnterQuery(req)]
    /\ UNCHANGED <<pipeVars, posts, analyses, now, cache, alertVars, clfVars>>

\* _get_from_cache: a hit returns the stored payload; a miss or an error
\* returns None and the call goes on to the store.
AggregateGet(r, ok) ==
    /\ reqs[r].pc = "get"
    /\ reqs[r].kind = "aggregate"
    /\ LET req == reqs[r]
           entry == CacheLookup(cache, req.key, now)
       IN  reqs' = [reqs EXCEPT ![r] =
              IF ~ok THEN GetErrorSwallowed(req)
              ELSE IF entry.hit
              THEN HitReturns(req, entry, AggregateLoads(entry.value))
              ELSE EnterQuery(req)]
    /\ UNCHANGED <<pipeVars, posts, analyses, now, cache, alertVars, clfVars>>

\* The aggregation query, and the response built from its rows.
AggregateQuery(r) ==
    /\ reqs[r].pc = "query"
    /\ reqs[r].kind = "aggregate"
    /\ LET req == reqs[r]
           rows == SelectedBetween(req.start, req.end, req.source)
       IN  reqs' = [reqs EXCEPT ![r] =
              [req EXCEPT !.pc = IF req.redis THEN "set" ELSE "done",
                          !.queried = TRUE, !.seen = Len(analyses),
                          !.response = AggregateResponse(req.period, req.start,
                                                         req.end, rows)]]
    /\ UNCHANGED <<pipeVars, posts, analyses, now, cache, alertVars, clfVars>>

\* _save_to_cache: setex(cache_key, 60, json.dumps(response)); an error is
\* printed and dropped.
AggregateSet(r, ok) ==
    /\ reqs[r].pc = "set"
    /\ reqs[r].kind = "aggregate"
    /\ LET req == reqs[r] IN
       IF ok
       THEN /\ cache' = SetEx(cache, req.key, CacheTtl,
                              AggregateDumps(req.response), now,
                              <<req.period, req.source, req.start, req.end>>)
            /\ reqs' = [reqs EXCEPT ![r] = [req EXCEPT !.pc = "done"]]
       ELSE /\ cache' = cache
            /\ reqs' = [reqs EXCEPT ![r] = SetErrorSwallowed(req)]
    /\ UNCHANGED <<pipeVars, posts, analyses, now, alertVars, clfVars>>

\* The caller has taken the response (or the exception).
Return(r) ==
    /\ reqs[r].pc = "done"
    /\ reqs' = [reqs EXCEPT ![r] = Idle]
    /\ UNCHANGED <<pipeVars, posts, analyses, now, cache, alertVars, clfVars>>

\* A worker's save_post_and_analysis commits: the post is upserted and one
\* analysis row is appended, in one transaction.
SaveCommitted(e, o) ==
    /\ Len(analyses) < MaxRows
    /\ now <= MaxSaveTime
    /\ o \in StartOutcomes(e)
    /\ ~o.raised
    /\ posts' = UpsertPost(posts, e, o.created_at, now, now) @@ posts
    /\ analyses' = InsertAnalysis(analyses,
                                  AnalysisRow(e, o.sentiment, o.emotion, now))
    /\ UNCHANGED <<pipeVars, now, aggVars, alertVars, clfVars>>

\* Time passes; Redis drops the entries that have expired.
ClockTick ==
    /\ now < MaxClock
    /\ now' = now + ClockStep
    /\ cache' = [k \in {k \in DOMAIN cache : now' < cache[k].expires} |-> cache[k]]
    /\ UNCHANGED <<pipeVars, posts, analyses, reqs, alertVars, clfVars>>

-----------------------------------------------------------------------------
(* The aggregator with its cache, over a store the workers write *)

InitCache ==
    /\ stream = << >>
    /\ group = [exists |-> FALSE, last |-> 0, pel |-> {}]
    /\ wpc = [w \in Workers |-> "start"]
    /\ analyzer = [w \in Workers |-> FALSE]
    /\ tasks = [w \in Workers |-> << >>]
    /\ posts = << >>
    /\ analyses = << >>
    /\ now = 0
    /\ hist = NoHistory
    /\ cache = << >>
    /\ reqs = [r \in Requests |-> Idle]
    /\ alerts = << >>
    /\ mon = [pc |-> "off"]
    /\ conf = [set |-> FALSE]
    /\ clf = [set |-> FALSE]
    /\ call = [pc |-> "idle"]

NextCache ==
    \/ \E r \in Requests, hours \in Hours, source \in Sources, redis \in BOOLEAN :
          DistributionCall(r, hours, source, redis)
    \/ \E r \in Requests, ok \in BOOLEAN : DistributionGet(r, ok)
    \/ \E r \in Requests : DistributionCount(r)
    \/ \E r \in Requests : DistributionEmotions(r)
    \/ \E r \in Requests, ok \in BOOLEAN : DistributionSet(r, ok)
    \/ \E r \in Requests, period \in Periods, source \in Sources,
          start \in {Omitted}, end \in {Omitted, Given(0)}, redis \in BOOLEAN :
          AggregateCall(r, period, start, end, source, redis)
    \/ \E r \in Requests, ok \in BOOLEAN : AggregateGet(r, ok)
    \/ \E r \in Requests : AggregateQuery(r)
    \/ \E r \in Requests, ok \in BOOLEAN : AggregateSet(r, ok)
    \/ \E r \in Requests : Return(r)
    \/ \E e \in AggEntries : \E o \in StartOutcomes(e) : SaveCommitted(e, o)
    \/ ClockTick

SpecCache == InitCache /\ [][NextCache]_vars

-----------------------------------------------------------------------------
(* The aggregator over a store the workers have filled *)

\* The numbers of rows of one label the store holds inside the window.
RowCounts == {0, 1, 2, 10, 30, 60}

\* A store of p positive, n negative and u neutral rows of post p1 analyzed
\* at instant t, old rows of p1 analyzed at instant 0 and other rows of post
\* p3 (of source "all") analyzed at instant t.
Store(p, n, u, old, other, t) ==
    LET row(e, label, at) ==
            AnalysisRow(e, [model_name |-> "distilbert",
                            sentiment_label |-> label, confidence_score |-> 87],
                        [emotion |-> "joy"], at)
    IN  [i \in 1..p |-> row(EntryShort, "positive", t)]
        \o [i \in 1..n |-> row(EntryShort, "negative", t)]
        \o [i \in 1..u |-> row(EntryShort, "neutral", t)]
        \o [i \in 1..old |-> row(EntryShort, "positive", 0)]
        \o [i \in 1..other |-> row(EntryAll, "negative", t)]

\* The calls are made two days after the oldest row was stored.
InitReport ==
    /\ stream = << >>
    /\ group = [exists |-> FALSE, last |-> 0, pel |-> {}]
    /\ wpc = [w \in Workers |-> "start"]
    /\ analyzer = [w \in Workers |-> FALSE]
    /\ tasks = [w \in Workers |-> << >>]
    /\ posts = UpsertPost(<< >>, EntryShort, "2025-01-15T10:30:00+00:00", 0, 0)
               @@ UpsertPost(<< >>, EntryAll, "2025-01-16T08:00:00", 0, 0)
    /\ \E p \in RowCounts, n \in RowCounts, u \in RowCounts :
          \E old \in {0, 1}, other \in {0, 1} :
             analyses = Store(p, n, u, old, other, 2 * DaySeconds)
    /\ now = 2 * DaySeconds
    /\ hist = NoHistory
    /\ cache = << >>
    /\ reqs = [r \in Requests |-> Idle]
    /\ alerts = << >>
    /\ mon = [pc |-> "off"]
    /\ conf = [set |-> FALSE]
    /\ clf = [set |-> FALSE]
    /\ call = [pc |-> "idle"]

\* get_sentiment_distribution on a service without a cache client.
NextReport ==
    \/ \E r \in Requests, hours \in Hours, source \in Sources :
          DistributionCall(r, hours, source, FALSE)
    \/ \E r \in Requests : DistributionCount(r)
    \/ \E r \in Requests : DistributionEmotions(r)
    \/ \E r \in Requests : Return(r)

SpecReport == InitReport /\ [][NextReport]_vars

-----------------------------------------------------------------------------
(* AlertService: the threshold check and the monitoring loop *)

\* Bounds of the alerting specification.
MaxAlertRows == 3
MaxAlertClock == 120

\* Program constant: the default check_interval_seconds.
CheckInterval == 60

\* Values of the environment: ALERT_NEGATIVE_RATIO_THRESHOLD (in hundredths),
\* ALERT_WINDOW_MINUTES and ALERT_MIN_POSTS.
Thresholds == {100, 200, 100000}
WindowMinutes == {1}
MinPosts == {2, 3}

\* Raw outputs of the sentiment pipeline for the posts of the alerting
\* specification.
AlertPipeOutputs ==
    SentimentPipeOutputs \cup { [label |-> "POSITIVE", score |-> 99] }

\* check_thresholds returned None.
NoAlert == [alert_triggered |-> FALSE]

\* float('inf'), and a finite ratio negative_count / positive_count kept as
\* the exact fraction.
Infinity == [inf |-> TRUE]
Ratio(n, d) == [inf |-> FALSE, num |-> n, den |-> d]

\* The reported value 999.99.
SentinelRatio == Ratio(99999, 100)

\* A comparison that also holds for a ratio equal to the threshold.
ExceedsOrEqual(ratio, threshold) ==
    ratio.inf \/ ratio.num * 100 >= threshold * ratio.den

\* actual_ratio > negative_ratio_threshold, the threshold in hundredths.
Exceeds(ratio, threshold) ==
    ratio.inf \/ ratio.num * 100 > threshold * ratio.den

\* The sample-size test skipped.
EnoughDataAlways(total, min_posts) == TRUE

\* not (metrics["total_count"] < self.min_posts)
EnoughData(total, min_posts) == ~(total < min_posts)

\* The rows of the window query: analyzed_at >= window_start.
InWindow(rows, window_start) ==
    {i \in 1..Len(rows) : rows[i].analyzed_at >= window_start}

\* The metrics built from the grouped counts of the window.
WindowMetrics(rows, window_start) ==
    LET count(l) == Cardinality({i \in InWindow(rows, window_start) :
                                    rows[i].sentiment_label = l})
    IN  [positive_count |-> count("positive"),
         negative_count |-> count("negative"),
         neutral_count |-> count("neutral"),
         total_count |-> Cardinality(InWindow(rows, window_start))]

\* The ratio reported as computed, infinite when it is.
ReportedRatioRaw(actual_ratio) == actual_ratio

\* actual_ratio if actual_ratio != float('inf') else 999.99
ReportedRatio(actual_ratio) ==
    IF actual_ratio # Infinity THEN actual_ratio ELSE SentinelRatio

\* check_thresholds() at instant t over the committed analysis rows: the
\* alert event, or NoAlert.
CheckThresholds(c, rows, t) ==
    LET window_start == t - c.window_minutes * MinuteSeconds
        metrics == WindowMetrics(rows, window_start)
        actual_ratio == IF metrics.positive_count = 0
                        THEN Infinity
                        ELSE Ratio(metrics.negative_count, metrics.positive_count)
    IN  IF ~EnoughData(metrics.total_count, c.min_posts) THEN NoAlert
        ELSE IF metrics.positive_count = 0 /\ ~(metrics.negative_count > 0)
        THEN NoAlert
        ELSE IF Exceeds(actual_ratio, c.threshold)
        THEN [alert_triggered |-> TRUE,
              alert_type |-> "high_negative_ratio",
              threshold |-> c.threshold,
              actual_ratio |-> ReportedRatio(actual_ratio),
              window_minutes |-> c.window_minutes,
              window_start |-> window_start,
              window_end |-> t,
              metrics |-> metrics,
              timestamp |-> IsoFormat(t)]
        ELSE NoAlert

\* The SentimentAlert row save_alert inserts at instant t.
AlertRow(alert_data, t) ==
    [alert_type |-> alert_data.alert_type,
     threshold_value |-> alert_data.threshold,
     actual_value |-> alert_data.actual_ratio,
     window_start |-> alert_data.window_start,
     window_end |-> alert_data.window_end,
     post_count |-> alert_data.metrics.total_count,
     triggered_at |-> t,
     details |-> [positive_count |-> alert_data.metrics.positive_count,
                  negative_count |-> alert_data.metrics.negative_count,
                  neutral_count |-> alert_data.metrics.neutral_count]]

\* An insert that keeps one alert row per alert_type.
InsertAlertPerType(rows, row) ==
    IF \E i \in 1..Len(rows) : rows[i].alert_type = row.alert_type
    THEN [i \in 1..Len(rows) |->
            IF rows[i].alert_type = row.alert_type THEN row ELSE rows[i]]
    ELSE Append(rows, row)

\* db.add(alert); await db.commit(): a plain INSERT.
InsertAlert(rows, row) == Append(rows, row)

\* A loop without the handler: the exception ends run_monitoring_loop.
ExceptionEndsLoop(m) ==
    [m EXCEPT !.pc = "ended", !.alert_data = NoAlert, !.failures = @ + 1]

\* except Exception: the error is printed and the cycle goes on to its
\* sleep. The record counts, as history, the consecutive failed cycles.
ExceptionCaught(m) ==
    [m EXCEPT !.pc = "sleep", !.alert_data = NoAlert, !.failures = @ + 1]

\* run_monitoring_loop() is called.
MonitoringStart ==
    /\ mon.pc = "off"
    /\ mon' = [mon EXCEPT !.pc = "check"]
    /\ UNCHANGED <<pipeVars, posts, analyses, now, aggVars, alerts, conf, clfVars>>

\* One cycle's check_thresholds(): it returns the event or None (ok), or its
\* query raises and the loop's handler catches the exception. The record
\* keeps, as history, the outcome of the last check that returned.
MonitoringCheck(ok) ==
    /\ mon.pc = "check"
    /\ LET result == CheckThresholds(conf, analyses, now) IN
       mon' = IF ok
              THEN [mon EXCEPT
                      !.pc = IF result.alert_triggered THEN "save" ELSE "sleep",
                      !.alert_data = result,
                      !.failures = IF result.alert_triggered THEN @ ELSE 0,
                      !.last = [returned |-> TRUE, result |-> result, at |-> now,
                                seen |-> Len(analyses)]]
              ELSE ExceptionCaught(mon)
    /\ UNCHANGED <<pipeVars, posts, analyses, now, aggVars, alerts, conf, clfVars>>

\* save_alert(alert_data): the row is inserted and committed (ok), or the
\* commit raises and the loop's handler catches the exception.
MonitoringSave(ok) ==
    /\ mon.pc = "save"
    /\ alerts' = IF ok THEN InsertAlert(alerts, AlertRow(mon.alert_data, now))
                 ELSE alerts
    /\ mon' = IF ok THEN [mon EXCEPT !.pc = "sleep", !.failures = 0]
              ELSE ExceptionCaught(mon)
    /\ UNCHANGED <<pipeVars, posts, analyses, now, aggVars, conf, clfVars>>

\* await asyncio.sleep(check_interval_seconds), then the next cycle.
MonitoringSleep ==
    /\ mon.pc = "sleep"
    /\ now < MaxAlertClock
    /\ now' = now + CheckInterval
    /\ mon' = [mon EXCEPT !.pc = "check", !.alert_data = NoAlert]
    /\ UNCHANGED <<pipeVars, posts, analyses, aggVars, alerts, conf, clfVars>>

\* A worker's save commits the analysis of a post whose raw label is out
\* (its content is shorter than 10 characters: the emotion pipeline is not
\* invoked).
Analysed(out) ==
    /\ Len(analyses) < MaxAlertRows
    /\ LET o == [raised |-> FALSE,
                 sentiment |-> AnalyzeSentimentLocal(EntryShort.content, out),
                 emotion |-> AnalyzeEmotionLocal(EntryShort.content, Raised),
                 created_at |-> ParseCreatedAt(EntryShort.created_at).value]
       IN  /\ posts' = UpsertPost(posts, EntryShort, o.created_at, now, now) @@ posts
           /\ analyses' = InsertAnalysis(analyses,
                             AnalysisRow(EntryShort, o.sentiment, o.emotion, now))
    /\ UNCHANGED <<pipeVars, now, aggVars, alertVars, clfVars>>

-----------------------------------------------------------------------------
(* The monitoring loop over a store the workers write *)

InitAlert ==
    /\ stream = << >>
    /\ group = [exists |-> FALSE, last |-> 0, pel |-> {}]
    /\ wpc = [w \in Workers |-> "start"]
    /\ analyzer = [w \in Workers |-> FALSE]
    /\ tasks = [w \in Workers |-> << >>]
    /\ posts = << >>
    /\ analyses = << >>
    /\ now = 0
    /\ hist = NoHistory
    /\ cache = << >>
    /\ reqs = << >>
    /\ alerts = << >>
    /\ mon = [pc |-> "off", alert_data |-> NoAlert,
              last |-> [returned |-> FALSE], failures |-> 0]
    /\ conf \in [threshold : Thresholds, window_minutes : WindowMinutes,
                 min_posts : MinPosts]
    /\ clf = [set |-> FALSE]
    /\ call = [pc |-> "idle"]

NextAlert ==
    \/ MonitoringStart
    \/ \E ok \in BOOLEAN : MonitoringCheck(ok)
    \/ \E ok \in BOOLEAN : MonitoringSave(ok)
    \/ MonitoringSleep
    \/ \E out \in AlertPipeOutputs : Analysed(out)

SpecAlert == InitAlert /\ [][NextAlert]_vars

-----------------------------------------------------------------------------
(* SentimentAnalyzer: the entry points, both variants *)

\* Python values passed to the entry points: the type, and the value in the
\* field of that type.
PyNone == [type |-> "NoneType", s |-> "", n |-> 0, items |-> << >>]
PyInt(n) == [type |-> "int", s |-> "", n |-> n, items |-> << >>]
PyStr(s) == [type |-> "str", s |-> s, n |-> 0, items |-> << >>]
PyList(items) == [type |-> "list", s |-> "", n |-> 0, items |-> items]
PyTuple(items) == [type |-> "tuple", s |-> "", n |-> 0, items |-> items]

\* bool(x)
Truthy(x) ==
    CASE x.type = "NoneType" -> FALSE
      [] x.type = "int" -> x.n # 0
      [] x.type = "str" -> x.s # ""
      [] OTHER -> Len(x.items) > 0

\* isinstance(x, str)
IsStr(x) == x.type = "str"

\* Arguments of analyze_sentiment and analyze_emotion: strings of 0, 6, 9, 10
\* and 17 characters, and values that are not strings.
TextArgs ==
    { PyStr(""), PyStr("so bad"), PyStr("so so bad"), PyStr("not so bad"),
      PyStr("what a lovely day"),
      PyNone, PyInt(0), PyInt(7), PyList(<< >>), PyList(<<PyStr("so bad")>>) }

\* Arguments of batch_analyze: lists of strings, and values that are not.
BatchArgs ==
    { PyList(<< >>), PyList(<<PyStr("not so bad")>>),
      PyList(<<PyStr("not so bad"), PyStr("")>>),
      PyList(<<PyInt(7)>>), PyList(<<PyStr("so bad"), PyNone>>),
      PyNone, PyInt(0), PyInt(7), PyStr("so bad"),
      PyTuple(<< >>), PyTuple(<<PyStr("so bad")>>) }

\* The instances: the local variant, and the remote variant with
\* EXTERNAL_LLM_API_KEY unset, empty or set.
Classifiers ==
    { [model_type |-> "local", api_key |-> PyNone],
      [model_type |-> "external", api_key |-> PyNone],
      [model_type |-> "external", api_key |-> PyStr("")],
      [model_type |-> "external", api_key |-> PyStr("gsk")] }

\* Contents of the message of an HTTP 200 reply of the remote endpoint.
Replies ==
    { "Positive", "negative, not positive", " NEUTRAL ", "it is mixed",
      "joy", "anger and joy", "Fear or surprise", "" }

\* Exceptions of the HTTP client.
HttpErrors == {"HTTPStatusError", "RequestError"}

\* str.lower() on one character.
LowerChar(ch) ==
    CASE ch = "A" -> "a" [] ch = "E" -> "e" [] ch = "F" -> "f"
      [] ch = "L" -> "l" [] ch = "N" -> "n" [] ch = "P" -> "p"
      [] ch = "R" -> "r" [] ch = "T" -> "t" [] ch = "U" -> "u"
      [] OTHER -> ch

\* str.lower()
RECURSIVE StrLower(_)
StrLower(s) ==
    IF s = "" THEN ""
    ELSE LowerChar(SubSeq(s, 1, 1)) \o StrLower(SubSeq(s, 2, Len(s)))

\* str.strip(): leading and trailing blanks removed.
RECURSIVE Strip(_)
Strip(s) ==
    IF s = "" THEN ""
    ELSE IF SubSeq(s, 1, 1) = " " THEN Strip(SubSeq(s, 2, Len(s)))
    ELSE IF SubSeq(s, Len(s), Len(s)) = " " THEN Strip(SubSeq(s, 1, Len(s) - 1))
    ELSE s

\* kw in s
Contains(s, kw) ==
    \E i \in 1..(Len(s) - Len(kw) + 1) : SubSeq(s, i, i + Len(kw) - 1) = kw

\* The position of the first occurrence of kw in s, 0 when there is none.
Find(s, kw) ==
    IF Contains(s, kw)
    THEN CHOOSE i \in 1..(Len(s) - Len(kw) + 1) :
            /\ SubSeq(s, i, i + Len(kw) - 1) = kw
            /\ \A j \in 1..(i - 1) : SubSeq(s, j, j + Len(kw) - 1) # kw
    ELSE 0

\* The emotions list of _analyze_external, in its order.
Emotions == <<"joy", "sadness", "anger", "fear", "surprise", "disgust", "neutral">>

\* The outcomes of a call: a returned value, a raised exception, or an HTTP
\* request in flight. invoked: the call has run a local pipeline.
Returned(value, invoked) ==
    [kind |-> "return", value |-> value, invoked |-> invoked]
Raises(error, message, invoked) ==
    [kind |-> "raise", error |-> error, message |-> message, invoked |-> invoked]
HttpRequest(task) == [kind |-> "http", task |-> task, invoked |-> FALSE]

\* The keyword that occurs first in the reply.
ParseSentimentByPosition(content) ==
    LET p == Find(content, "positive")
        n == Find(content, "negative")
    IN  IF p = 0 /\ n = 0 THEN "neutral"
        ELSE IF n = 0 \/ (p # 0 /\ p < n) THEN "positive" ELSE "negative"

\* _analyze_external, task "sentiment": positive, else negative, else neutral.
ParseSentiment(content) ==
    IF Contains(content, "positive") THEN "positive"
    ELSE IF Contains(content, "negative") THEN "negative"
    ELSE "neutral"

\* _analyze_external, task "emotion": the first emotion of the list that the
\* content contains, else neutral.
ParseEmotion(content) ==
    LET found == {k \in 1..Len(Emotions) : Contains(content, Emotions[k])}
    IN  IF found = {} THEN "neutral"
        ELSE Emotions[CHOOSE k \in found : \A j \in found : k <= j]

\* _analyze_external after the reply: the content is stripped and
\* lower-cased, then parsed for the task.
ExternalParse(task, reply) ==
    LET content == StrLower(Strip(reply)) IN
    IF task = "sentiment"
    THEN Returned([sentiment_label |-> ParseSentiment(content),
                   confidence_score |-> 85,
                   model_name |-> "llama-3.1-8b-instant"], FALSE)
    ELSE Returned([emotion |-> ParseEmotion(content),
                   confidence_score |-> 85,
                   model_name |-> "llama-3.1-8b-instant"], FALSE)

\* The credential test of _analyze_external left out: the request is sent
\* whatever the key is.
AnalyzeExternalHeadNoKeyTest(c, x, task) ==
    IF ~IsStr(x)
    THEN Raises("ValueError", "Input text must be a string", FALSE)
    ELSE HttpRequest(task)

\* _analyze_external up to its HTTP request: the credential and the type of
\* the text are tested, then the request is sent.
AnalyzeExternalHead(c, x, task) ==
    IF ~Truthy(c.api_key)
    THEN Raises("ValueError", "EXTERNAL_LLM_API_KEY not configured", FALSE)
    ELSE IF ~IsStr(x)
    THEN Raises("ValueError", "Input text must be a string", FALSE)
    ELSE HttpRequest(task)

\* An emptiness test that never holds.
IsEmptyNever(x) == FALSE

\* not text
IsEmpty(x) == ~Truthy(x)

\* The result of analyze_sentiment for empty text.
EmptySentiment ==
    [sentiment_label |-> "neutral", confidence_score |-> 0, model_name |-> "none"]

\* analyze_sentiment(x) up to its return or its first suspension; out is
\* what sentiment_pipe returns, or Raised.
AnalyzeSentiment(c, x, out) ==
    IF IsEmpty(x) THEN Returned(EmptySentiment, FALSE)
    ELSE IF ~IsStr(x)
    THEN Raises("ValueError", "Input text must be a string", FALSE)
    ELSE IF c.model_type = "local"
    THEN LET r == AnalyzeSentimentLocal(x.s, out) IN
         IF r.raised THEN Raises("RuntimeError", "", r.invoked)
         ELSE Returned([sentiment_label |-> r.sentiment_label,
                        confidence_score |-> r.confidence_score,
                        model_name |-> r.model_name], r.invoked)
    ELSE AnalyzeExternalHead(c, x, "sentiment")

\* analyze_emotion(x) up to its return or its first suspension; out is what
\* emotion_pipe returns, or Raised.
AnalyzeEmotion(c, x, out) ==
    IF ~Truthy(x) THEN Raises("ValueError", "Empty text", FALSE)
    ELSE IF ~IsStr(x)
    THEN Raises("ValueError", "Input text must be a string", FALSE)
    ELSE IF Len(x.s) < 10
    THEN Returned([emotion |-> "neutral", confidence_score |-> 100,
                   model_name |-> "rule-based"], FALSE)
    ELSE IF c.model_type = "local"
    THEN LET r == AnalyzeEmotionLocal(x.s, out) IN
         IF r.raised THEN Raises("RuntimeError", "", r.invoked)
         ELSE Returned([emotion |-> r.emotion,
                        confidence_score |-> r.confidence_score,
                        model_name |-> r.model_name], r.invoked)
    ELSE AnalyzeExternalHead(c, x, "emotion")

\* The outcome of a gather over the items: the first exception, the list of
\* the results once every item has returned.
Gathered(items) ==
    IF \E i \in 1..Len(items) : items[i].kind = "raise"
    THEN items[CHOOSE i \in 1..Len(items) :
                 /\ items[i].kind = "raise"
                 /\ \A j \in 1..(i - 1) : items[j].kind # "raise"]
    ELSE Returned([i \in 1..Len(items) |-> items[i].value], FALSE)

\* batch_analyze(xs) up to its return or its first suspension: the items of
\* the remote variant's gather, or the outcome. outs is what sentiment_pipe
\* returns for the list, or that it raised.
BatchAnalyze(c, xs, outs) ==
    IF ~Truthy(xs) THEN <<Returned(<< >>, FALSE)>>
    ELSE IF xs.type # "list"
    THEN <<Raises("ValueError", "Input must be a list of texts", FALSE)>>
    ELSE IF \E i \in 1..Len(xs.items) : ~IsStr(xs.items[i])
    THEN <<Raises("ValueError",
                  "All items in the input list must be strings", FALSE)>>
    ELSE IF c.model_type = "local"
    THEN IF outs.raised THEN <<Raises("RuntimeError", "", TRUE)>>
         ELSE <<Returned([i \in 1..Len(xs.items) |->
                            [sentiment_label |-> Lower(outs.results[i].label),
                             confidence_score |-> outs.results[i].score,
                             model_name |-> "batch-local"]], TRUE)>>
    ELSE [i \in 1..Len(xs.items) |-> AnalyzeSentiment(c, xs.items[i], Raised)]

\* The call after its synchronous head: done, or waiting for its replies.
\* As history, http counts the HTTP requests the call has sent and replies
\* keeps the content of the replies it has received.
Started(fn, x, items, single) ==
    LET waiting == \E i \in 1..Len(items) : items[i].kind = "http"
        failed == \E i \in 1..Len(items) : items[i].kind = "raise"
    IN  [pc |-> IF waiting /\ ~failed THEN "http" ELSE "done",
         fn |-> fn, arg |-> x, items |-> items, single |-> single,
         outcome |-> IF waiting /\ ~failed THEN [kind |-> "pending"]
                     ELSE IF single THEN items[1] ELSE Gathered(items),
         http |-> Cardinality({i \in 1..Len(items) : items[i].kind = "http"}),
         replies |-> << >>]

\* analyze_sentiment(x) is called.
CallSentiment(x, out) ==
    /\ call.pc = "idle"
    /\ call' = Started("analyze_sentiment", x, <<AnalyzeSentiment(clf, x, out)>>, TRUE)
    /\ UNCHANGED <<pipeVars, posts, analyses, now, aggVars, alertVars, clf>>

\* analyze_emotion(x) is called.
CallEmotion(x, out) ==
    /\ call.pc = "idle"
    /\ call' = Started("analyze_emotion", x, <<AnalyzeEmotion(clf, x, out)>>, TRUE)
    /\ UNCHANGED <<pipeVars, posts, analyses, now, aggVars, alertVars, clf>>

\* What sentiment_pipe(texts) does for n texts: it raises, or it returns one
\* raw output per text.
BatchPipeOutputs(n) ==
    {[raised |-> TRUE, results |-> << >>]}
        \cup {[raised |-> FALSE, results |-> r] : r \in [1..n -> SentimentPipeOutputs]}

\* batch_analyze(xs) is called; the remote variant gathers one
\* analyze_sentiment call per text.
CallBatch(xs, outs) ==
    /\ call.pc = "idle"
    /\ outs \in BatchPipeOutputs(Len(xs.items))
    /\ LET items == BatchAnalyze(clf, xs, outs)
           gathers == /\ Truthy(xs)
                      /\ xs.type = "list"
                      /\ \A i \in 1..Len(xs.items) : IsStr(xs.items[i])
                      /\ clf.model_type # "local"
       IN  call' = Started("batch_analyze", xs, items, ~gathers)
    /\ UNCHANGED <<pipeVars, posts, analyses, now, aggVars, alertVars, clf>>

\* The call once item i has its outcome: done when no request is in flight
\* any more or when the item raised.
Replied(i, item) ==
    LET items == [call.items EXCEPT ![i] = item]
        waiting == \E j \in 1..Len(items) : items[j].kind = "http"
    IN  IF waiting /\ item.kind # "raise"
        THEN [call EXCEPT !.items = items]
        ELSE [call EXCEPT !.pc = "done", !.items = items,
                          !.outcome = IF call.single THEN item
                                      ELSE Gathered(items)]

\* The endpoint answers request i with status 200 and the given content.
HttpResponds(i, reply) ==
    /\ call.pc = "http"
    /\ i \in 1..Len(call.items)
    /\ call.items[i].kind = "http"
    /\ call' = [Replied(i, ExternalParse(call.items[i].task, reply))
                  EXCEPT !.replies = (i :> reply) @@ @]
    /\ UNCHANGED <<pipeVars, posts, analyses, now, aggVars, alertVars, clf>>

\* Request i fails (an error status, or a network error); the exception is
\* logged and raised again.
HttpFails(i, error) ==
    /\ call.pc = "http"
    /\ i \in 1..Len(call.items)
    /\ call.items[i].kind = "http"
    /\ call' = Replied(i, Raises(error, "", FALSE))
    /\ UNCHANGED <<pipeVars, posts, analyses, now, aggVars, alertVars, clf>>

\* The caller has taken the outcome.
CallReturns ==
    /\ call.pc = "done"
    /\ call' = [pc |-> "idle"]
    /\ UNCHANGED <<pipeVars, posts, analyses, now, aggVars, alertVars, clf>>

\* process_message of the consumer, whose instance is the local variant: the
\* sentiment result it was returned for a message's content, then
\* analyze_emotion on that content and the save of both results.
WorkerSaves(out) ==
    /\ clf.model_type = "local"
    /\ call.pc = "done"
    /\ call.fn = "analyze_sentiment"
    /\ call.outcome.kind = "return"
    /\ IsStr(call.arg)
    /\ Len(analyses) < MaxRows
    /\ LET data == [EntryLong EXCEPT !.content = call.arg.s]
           emotion == AnalyzeEmotion(clf, call.arg, out)
       IN  /\ emotion.kind = "return"
           /\ posts' = UpsertPost(posts, data,
                                  ParseCreatedAt(data.created_at).value,
                                  now, now) @@ posts
           /\ analyses' = InsertAnalysis(analyses,
                             AnalysisRow(data, call.outcome.value,
                                         emotion.value, now))
    /\ call' = [pc |-> "idle"]
    /\ UNCHANGED <<pipeVars, now, aggVars, alertVars, clf>>

-----------------------------------------------------------------------------
(* The entry points of one instance, called one at a time *)

InitClassifier ==
    /\ stream = << >>
    /\ group = [exists |-> FALSE, last |-> 0, pel |-> {}]
    /\ wpc = [w \in Workers |-> "start"]
    /\ analyzer = [w \in Workers |-> FALSE]
    /\ tasks = [w \in Workers |-> << >>]
    /\ posts = << >>
    /\ analyses = << >>
    /\ now = 0
    /\ hist = NoHistory
    /\ cache = << >>
    /\ reqs = << >>
    /\ alerts = << >>
    /\ mon = [pc |-> "off"]
    /\ conf = [set |-> FALSE]
    /\ clf \in Classifiers
    /\ call = [pc |-> "idle"]

NextClassifier ==
    \/ \E x \in TextArgs, out \in SentimentPipeOutputs \cup {Raised} :
          CallSentiment(x, out)
    \/ \E x \in TextArgs, out \in EmotionPipeOutputs \cup {Raised} :
          CallEmotion(x, out)
    \/ \E xs \in BatchArgs :
          \E outs \in BatchPipeOutputs(Len(xs.items)) : CallBatch(xs, outs)
    \/ \E i \in 1..2, reply \in Replies : HttpResponds(i, reply)
    \/ \E i \in 1..2, error \in HttpErrors : HttpFails(i, error)
    \/ CallReturns
    \/ \E out \in EmotionPipeOutputs \cup {Raised} : WorkerSaves(out)

SpecClassifier == InitClassifier /\ [][NextClassifier]_vars

-----------------------------------------------------------------------------
(* Delivery and acknowledgement *)

\* C1: an entry whose process_message run failed is left unacknowledged, and
\* the next XREADGROUP the worker issues after that run delivers the entry
\* again.
C1_FailedIsRedeliveredOnNextPoll ==
    \A id \in hist.failed :
        /\ id \notin hist.acks
        /\ id \in hist.polledAfter => hist.delivered[id] >= 2

\* C2: an entry whose processing succeeded (saved and acknowledged) is never
\* delivered again, to any worker of the group.
C2_SucceededNeverRedelivered ==
    /\ hist.redelivered = {}
    /\ \A id \in hist.succeeded : hist.delivered[id] = 1

\* A worker has read the group again after one of its entries succeeded, and
\* that later read delivered another entry.
C2_Witness ==
    \E w \in Workers : \E id \in hist.succeeded \cap hist.polledAfter :
        /\ wpc[w] = "proc"
        /\ \E id2 \in DOMAIN tasks[w] : id2 > id

\* C3: every acknowledged entry has a committed SentimentAnalysis row (and a
\* committed Post row) for its post_id, and an entry whose run failed in the
\* classification or in the save was not acknowledged.
C3_AckOnlyAfterCommit ==
    /\ \A id \in hist.acks :
          /\ stream[id].post_id \in DOMAIN posts
          /\ \E i \in 1..Len(analyses) : analyses[i].post_id = stream[id].post_id
    /\ \A w \in Workers : \A id \in DOMAIN tasks[w] :
          (tasks[w][id].pc = "done" /\ ~tasks[w][id].result
             /\ tasks[w][id].at \in {"start", "upsert", "commit"})
          => id \notin hist.acks

\* One entry is acknowledged after its commit while another one of the group
\* failed in its save.
C3_Witness ==
    /\ hist.acks # {}
    /\ \E w \in Workers : \E id \in DOMAIN tasks[w] :
          /\ tasks[w][id].pc = "done"
          /\ ~tasks[w][id].result
          /\ tasks[w][id].at \in {"upsert", "commit"}

-----------------------------------------------------------------------------
(* The store under save_post_and_analysis *)

\* The number of committed analysis rows of post p.
RowsOf(p) == Cardinality({i \in 1..Len(analyses) : analyses[i].post_id = p})

\* C4: the store holds one Post row per post_id with a committed save, and
\* its content, author and created_at (and source) are those of the first
\* committed save of that post_id, whatever later saves carried.
C4_PostKeepsFirstSave ==
    /\ DOMAIN posts = {stream[id].post_id : id \in hist.saved}
    /\ DOMAIN posts = DOMAIN hist.first
    /\ \A p \in DOMAIN posts :
          LET e == stream[hist.first[p]] IN
          /\ posts[p].post_id = p
          /\ posts[p].content = e.content
          /\ posts[p].author = e.author
          /\ posts[p].source = e.source
          /\ posts[p].created_at = ParseCreatedAt(e.created_at).value

\* Two committed saves of one post_id carried different content, and the
\* later one refreshed ingested_at.
C4_Witness ==
    \E id1 \in hist.saved : \E id2 \in hist.saved :
        /\ stream[id1].post_id = stream[id2].post_id
        /\ stream[id1].content # stream[id2].content
        /\ posts[stream[id1].post_id].ingested_at > 0

\* C5: a visible change of the store is made only by the step that completes
\* a commit, and that step makes both writes visible; a save that fails
\* before its commit completes therefore leaves the store as it was.
C5_SaveAllOrNothing ==
    [][ /\ (posts' # posts \/ analyses' # analyses) =>
            \E w \in Workers : \E id \in DOMAIN tasks[w] :
                /\ tasks[w][id].pc = "commit"
                /\ tasks'[w][id].pc # "commit"
                /\ tasks'[w][id].pc = "done" => tasks'[w][id].result
                /\ stream[id].post_id \in DOMAIN posts'
                /\ Len(analyses') = Len(analyses) + 1
                /\ analyses'[Len(analyses')].post_id = stream[id].post_id
        /\ \A w \in Workers : \A id \in DOMAIN tasks[w] :
              (/\ tasks[w][id].pc \in {"start", "upsert", "commit"}
               /\ tasks'[w][id].pc = "done"
               /\ ~tasks'[w][id].result)
              => (posts' = posts /\ analyses' = analyses)
      ]_vars

\* A save failed at its commit, after its upsert had been executed, and
\* another save of the same batch has committed.
C5_Witness ==
    /\ hist.saved # {}
    /\ \E w \in Workers : \E id \in DOMAIN tasks[w] :
          /\ tasks[w][id].pc = "done"
          /\ ~tasks[w][id].result
          /\ tasks[w][id].at = "commit"

\* C6: every committed save appends one analysis row and no step changes or
\* removes an existing row, so a post_id saved n times has n rows.
C6_AnalysesAppendOnly ==
    /\ [](\A p \in {e.post_id : e \in SaveEntries} :
             RowsOf(p) = Cardinality({id \in hist.saved : stream[id].post_id = p}))
    /\ [][ /\ Len(analyses') >= Len(analyses)
           /\ Len(analyses') <= Len(analyses) + 1
           /\ SubSeq(analyses', 1, Len(analyses)) = analyses ]_vars

\* One post_id has two analysis rows.
C6_Witness ==
    \E i \in 1..Len(analyses) : \E j \in 1..Len(analyses) :
        i # j /\ analyses[i].post_id = analyses[j].post_id

-----------------------------------------------------------------------------
(* The aggregator's cache *)

\* What get_sentiment_distribution(hours, source) computes at instant t from
\* the store as it is, on a service without a cache client.
DistributionFromStore(hours, source, t) ==
    LET rows == SelectedSince(t - hours * HourSeconds, source)
    IN  DistributionResponse(hours, source, rows, TopEmotions(rows), t)

\* What get_sentiment_aggregate computes from the store as it is, on a
\* service without a cache client, for the effective start and end.
AggregateFromStore(period, start, end, source) ==
    AggregateResponse(period, start, end, SelectedBetween(start, end, source))

\* The entry under key was written less than 60 seconds ago.
Fresh(key) == key \in DOMAIN cache /\ now - cache[key].at < CacheTtl

\* C7: a get_sentiment_distribution call whose cache read finds an entry
\* written for the same (hours, source) less than 60 seconds earlier returns
\* that entry's payload, unchanged but for cached = true, and does not query
\* the store; a call whose read finds no entry, or one written 60 seconds ago
\* or more, queries the store and returns cached = false, and its cache
\* write stores that response with an expiry of 60 seconds.
C7_DistributionReadThrough ==
    /\ [](\A r \in Requests :
            LET req == reqs[r] IN
            (/\ req.pc = "done"
             /\ req.kind = "distribution"
             /\ req.redis
             /\ ~req.getRaised
             /\ ~req.found.hit)
            => (req.queried /\ req.response.cached = FALSE))
    /\ [][\A r \in Requests :
            LET req == reqs[r]
                new == reqs'[r]
            IN  /\ (/\ req.pc = "get"
                    /\ req.kind = "distribution"
                    /\ new.pc # "get"
                    /\ ~new.getRaised)
                   => /\ (Fresh(req.key)
                            /\ cache[req.key].by = <<req.hours, req.source>>)
                         => /\ new.pc = "done"
                            /\ ~new.queried
                            /\ new.response.cached = TRUE
                            /\ DistributionDumps(
                                 [new.response EXCEPT !.cached = FALSE])
                               = cache[req.key].value
                      /\ ~Fresh(req.key) => new.pc = "query"
                /\ (/\ req.pc = "set"
                    /\ req.kind = "distribution"
                    /\ new.pc = "done"
                    /\ ~new.setRaised)
                   => /\ req.key \in DOMAIN cache'
                      /\ cache'[req.key].value = DistributionDumps(new.response)
                      /\ cache'[req.key].at = now
                      /\ cache'[req.key].expires = now + CacheTtl
         ]_vars

\* A distribution call has returned, with cached = true, a payload written
\* for its own arguments at an earlier instant, while the store has since
\* received a row the payload does not count.
C7_Witness ==
    \E r \in Requests :
        LET req == reqs[r] IN
        /\ req.pc = "done"
        /\ req.kind = "distribution"
        /\ req.found.hit
        /\ req.found.by = <<req.hours, req.source>>
        /\ req.found.at < now
        /\ req.response.cached
        /\ req.response.total = 0
        /\ Len(analyses) > 0

\* C8: a call whose cache read or cache write raised does not raise: it has
\* queried the store and returns a response; while the store and the clock
\* are as they were at its query, that response is the one a call on a
\* service without a cache client returns, which is what the store gives
\* for the call's arguments.
C8_CacheErrorsNeverFail ==
    \A r \in Requests :
        LET req == reqs[r] IN
        req.pc = "done" =>
          /\ (req.redis /\ (req.getRaised \/ req.setRaised))
             => (~req.raised /\ req.queried)
          /\ ((~req.redis \/ req.getRaised \/ req.setRaised)
                /\ req.seen = Len(analyses))
             => IF req.kind = "distribution"
                THEN req.threshold = now - req.hours * HourSeconds
                     => req.response =
                          DistributionFromStore(req.hours, req.source, now)
                ELSE req.response =
                       AggregateFromStore(req.period, req.start, req.end,
                                          req.source)

\* A distribution call on a service with a cache client has returned after
\* both its cache read and its cache write raised, over a store with rows.
C8_Witness ==
    \E r \in Requests :
        LET req == reqs[r] IN
        /\ req.pc = "done"
        /\ req.kind = "distribution"
        /\ req.redis
        /\ req.getRaised
        /\ req.setRaised
        /\ req.response.total > 0

\* C9: a get_sentiment_aggregate call whose cache read finds an entry
\* written by a call with the same period, source, start and end less than
\* 60 seconds earlier returns the stored payload and does not query the
\* store; a call whose read finds no entry, or one written 60 seconds ago or
\* more, queries the store and returns what the store gives.
C9_AggregateReadThrough ==
    /\ [](\A r \in Requests :
            LET req == reqs[r] IN
            (/\ req.pc = "done"
             /\ req.kind = "aggregate"
             /\ req.redis
             /\ ~req.getRaised
             /\ ~req.found.hit)
            => /\ req.queried
               /\ req.seen = Len(analyses)
                  => req.response =
                       AggregateFromStore(req.period, req.start, req.end,
                                          req.source))
    /\ [][\A r \in Requests :
            LET req == reqs[r]
                new == reqs'[r]
            IN  (/\ req.pc = "get"
                 /\ req.kind = "aggregate"
                 /\ new.pc # "get"
                 /\ ~new.getRaised)
                => /\ (Fresh(req.key)
                         /\ cache[req.key].by =
                              <<req.period, req.source, req.start, req.end>>)
                      => /\ new.pc = "done"
                         /\ ~new.queried
                         /\ AggregateDumps(new.response) = cache[req.key].value
                   /\ ~Fresh(req.key) => new.pc = "query"
         ]_vars

\* An aggregate call has returned the payload a call with the same period,
\* source, start and end stored at an earlier instant, while the store has
\* since received a row of the range that the payload does not count.
C9_Witness ==
    \E r \in Requests :
        LET req == reqs[r] IN
        /\ req.pc = "done"
        /\ req.kind = "aggregate"
        /\ req.found.hit
        /\ req.found.by = <<req.period, req.source, req.start, req.end>>
        /\ req.found.at < now
        /\ req.response.summary.total_posts = 0
        /\ SelectedBetween(req.start, req.end, req.source) # {}

-----------------------------------------------------------------------------
(* Alerting *)

\* C10: a check_thresholds call that finds fewer than min_posts analysis
\* rows in its trailing window returns no alert, whatever the positive and
\* negative counts of the window are, and the cycle saves no alert row.
C10_NoAlertBelowMinPosts ==
    [][ LET window_start == now - conf.window_minutes * MinuteSeconds
            total == Cardinality({i \in 1..Len(analyses) :
                                     analyses[i].analyzed_at >= window_start})
        IN  (/\ mon.pc = "check"
             /\ mon'.pc # "check"
             /\ total < conf.min_posts)
            => /\ mon'.alert_data = NoAlert
               /\ mon'.pc = "sleep"
               /\ alerts' = alerts
      ]_vars

\* A check has returned no alert over a window with negative rows and no
\* positive row, fewer than min_posts in all, while the store holds at least
\* min_posts rows.
C10_Witness ==
    /\ mon.last.returned
    /\ mon.last.result = NoAlert
    /\ mon.last.seen = Len(analyses)
    /\ mon.last.at = now
    /\ Len(analyses) >= conf.min_posts
    /\ LET m == WindowMetrics(analyses, now - conf.window_minutes * MinuteSeconds)
       IN  /\ m.total_count < conf.min_posts
           /\ m.positive_count = 0
           /\ m.negative_count > 0

\* The counts of the window of a check made now, taken from the store.
WindowNow == WindowMetrics(analyses, now - conf.window_minutes * MinuteSeconds)

\* This step is a check_thresholds call of the loop that returns.
CheckReturns ==
    /\ mon.pc = "check"
    /\ mon'.pc # "check"
    /\ mon'.failures <= mon.failures

\* C11: a check over a window of at least min_posts rows with no positive
\* and some negative row fires and reports the ratio 999.99; no alert event
\* and no alert row carries an infinite ratio.
C11_SentinelRatio ==
    /\ []( /\ mon.alert_data.alert_triggered => ~mon.alert_data.actual_ratio.inf
           /\ \A i \in 1..Len(alerts) : ~alerts[i].actual_value.inf )
    /\ [][ (/\ CheckReturns
            /\ WindowNow.total_count >= conf.min_posts
            /\ WindowNow.positive_count = 0
            /\ WindowNow.negative_count > 0)
           => /\ mon'.alert_data.alert_triggered
              /\ mon'.alert_data.actual_ratio = SentinelRatio
              /\ mon'.pc = "save"
         ]_vars

\* An alert row with the ratio 999.99 is stored for a window without a
\* positive row.
C11_Witness ==
    \E i \in 1..Len(alerts) :
        /\ alerts[i].actual_value = SentinelRatio
        /\ alerts[i].details.positive_count = 0
        /\ alerts[i].details.negative_count > 0
        /\ alerts[i].post_count >= conf.min_posts

\* C12: a check over a window of at least min_posts rows with a positive row
\* fires exactly when negative_count / positive_count is strictly greater
\* than the threshold; over a window with neither a positive nor a negative
\* row it does not fire.
C12_FiresIffRatioExceeds ==
    [][ /\ (/\ CheckReturns
            /\ WindowNow.total_count >= conf.min_posts
            /\ WindowNow.positive_count > 0)
           => (mon'.alert_data.alert_triggered
                 <=> WindowNow.negative_count * 100
                        > conf.threshold * WindowNow.positive_count)
        /\ (/\ CheckReturns
            /\ WindowNow.total_count >= conf.min_posts
            /\ WindowNow.positive_count = 0
            /\ WindowNow.negative_count = 0)
           => ~mon'.alert_data.alert_triggered
      ]_vars

\* The last check returned no alert over a window of at least min_posts
\* rows whose ratio equals the threshold.
C12_Witness ==
    /\ mon.last.returned
    /\ mon.last.result = NoAlert
    /\ mon.last.seen = Len(analyses)
    /\ mon.last.at = now
    /\ WindowNow.total_count >= conf.min_posts
    /\ WindowNow.positive_count > 0
    /\ WindowNow.negative_count * 100 = conf.threshold * WindowNow.positive_count

\* C13: a cycle whose check_thresholds or save_alert raises goes on to its
\* sleep, and the step after a sleep is the next cycle's check; the loop
\* never leaves its cycle, however many cycles in a row have failed.
C13_LoopSurvivesFailedCycles ==
    /\ [](mon.pc \in {"off", "check", "save", "sleep"})
    /\ [][ /\ (mon.pc \in {"check", "save"} /\ mon'.failures > mon.failures)
              => (mon'.pc = "sleep" /\ alerts' = alerts)
           /\ (mon.pc = "sleep" /\ mon' # mon)
              => (mon'.pc = "check" /\ now' = now + CheckInterval)
         ]_vars

\* After two failed cycles in a row the check of the third cycle has been
\* performed and has fired.
C13_Witness ==
    /\ mon.failures >= 2
    /\ mon.pc = "save"
    /\ mon.last.returned
    /\ mon.last.at = now

\* C14: a cycle whose check fires goes on to save_alert, and a save_alert
\* that returns appends one row carrying the event's window_start,
\* window_end, threshold, reported ratio, total count and per-label counts;
\* a cycle whose check does not fire goes to its sleep; no other step
\* changes the alert rows, and no step changes or removes an existing row.
C14_OneRowPerFiredCycle ==
    [][ /\ CheckReturns
           => (mon'.pc = IF mon'.alert_data.alert_triggered
                         THEN "save" ELSE "sleep")
        /\ (mon.pc = "save" /\ mon'.pc # "save" /\ mon'.failures <= mon.failures)
           => /\ Len(alerts') = Len(alerts) + 1
              /\ LET row == alerts'[Len(alerts')]
                     ev == mon.alert_data
                 IN  /\ ev.alert_triggered
                     /\ row.window_start = ev.window_start
                     /\ row.window_end = ev.window_end
                     /\ row.threshold_value = ev.threshold
                     /\ row.actual_value = ev.actual_ratio
                     /\ row.post_count = ev.metrics.total_count
                     /\ row.details.positive_count = ev.metrics.positive_count
                     /\ row.details.negative_count = ev.metrics.negative_count
                     /\ row.details.neutral_count = ev.metrics.neutral_count
        /\ alerts' # alerts
           => (mon.pc = "save" /\ Len(alerts') = Len(alerts) + 1)
        /\ SubSeq(alerts', 1, Len(alerts)) = alerts
      ]_vars

\* Two cycles have fired and each has stored its row, for different
\* windows.
C14_Witness ==
    /\ Len(alerts) = 2
    /\ alerts[1].window_end < alerts[2].window_end
    /\ alerts[1].alert_type = alerts[2].alert_type

-----------------------------------------------------------------------------
(* The classifier *)

\* The call is a finished call of fn.
Done(fn) == call.pc = "done" /\ call.fn = fn

\* C15: analyze_emotion on a text of 0 to 9 characters returns emotion
\* neutral, confidence 1.0 and model name 'rule-based', without running a
\* local pipeline and without an HTTP request.
C15_ShortTextIsNeutral ==
    (Done("analyze_emotion") /\ IsStr(call.arg) /\ Len(call.arg.s) < 10)
    => /\ call.outcome.kind = "return"
       /\ call.outcome.value = [emotion |-> "neutral", confidence_score |-> 100,
                                model_name |-> "rule-based"]
       /\ ~call.outcome.invoked
       /\ call.http = 0

\* The argument is what the entry point is declared to take: a string, for
\* batch_analyze a list of strings.
WellTyped(fn, x) ==
    IF fn = "batch_analyze"
    THEN x.type = "list" /\ \A i \in 1..Len(x.items) : IsStr(x.items[i])
    ELSE IsStr(x)

\* C16: a call of an entry point with an argument that is not a string (for
\* batch_analyze: not a list of strings) raises the invalid-input error
\* (ValueError) without running a local pipeline and without an HTTP
\* request.
C16_NonStringIsInvalidInput ==
    (call.pc = "done" /\ ~WellTyped(call.fn, call.arg))
    => /\ call.outcome.kind = "raise"
       /\ call.outcome.error = "ValueError"
       /\ ~call.outcome.invoked
       /\ call.http = 0

\* C17: every result analyze_sentiment returns, in the local and in the
\* remote variant, has a sentiment_label among positive, negative and
\* neutral, and so has every stored analysis row.
C17_LabelInSet ==
    /\ (call.pc \in {"http", "done"} /\ (call.fn = "analyze_sentiment" \/ ~call.single))
       => \A i \in 1..Len(call.items) :
             call.items[i].kind = "return"
             => call.items[i].value.sentiment_label \in SentimentLabels
    /\ \A i \in 1..Len(analyses) : analyses[i].sentiment_label \in SentimentLabels

\* The local pipeline has been run and the call has returned neutral, after
\* the consumer stored a row.
C17_Witness ==
    /\ Done("analyze_sentiment")
    /\ clf.model_type = "local"
    /\ call.outcome.kind = "return"
    /\ call.outcome.invoked
    /\ call.outcome.value.sentiment_label = "neutral"
    /\ Len(analyses) > 0

\* C18: analyze_sentiment on the empty string returns neutral, confidence
\* 0.0 and model name 'none', without running a local pipeline and without
\* an HTTP request, in every variant and whatever the credential is.
C18_EmptyTextIsNeutral ==
    (Done("analyze_sentiment") /\ call.arg = PyStr(""))
    => /\ call.outcome.kind = "return"
       /\ call.outcome.value = [sentiment_label |-> "neutral",
                                confidence_score |-> 0, model_name |-> "none"]
       /\ ~call.outcome.invoked
       /\ call.http = 0

\* The remote variant without a credential has returned from
\* analyze_sentiment on the empty string.
C18_Witness ==
    /\ Done("analyze_sentiment")
    /\ call.arg = PyStr("")
    /\ clf.model_type = "external"
    /\ clf.api_key = PyNone
    /\ call.outcome.kind = "return"

\* The call needs the backend: analyze_sentiment on a non-empty string,
\* analyze_emotion on a string of 10 characters or more.
NeedsBackend ==
    /\ IsStr(call.arg)
    /\ \/ call.fn = "analyze_sentiment" /\ call.arg.s # ""
       \/ call.fn = "analyze_emotion" /\ Len(call.arg.s) >= 10

\* C19: in the remote variant without a credential no call sends an HTTP
\* request, and a call that needs the backend raises the error of the
\* missing credential without running a local pipeline.
C19_NoCredentialFails ==
    (clf.model_type = "external" /\ ~Truthy(clf.api_key) /\ call.pc # "idle")
    => /\ call.pc = "done"
       /\ call.http = 0
       /\ \A i \in 1..Len(call.items) : ~call.items[i].invoked
       /\ (call.fn # "batch_analyze" /\ NeedsBackend)
          => /\ call.outcome.kind = "raise"
             /\ call.outcome.error = "ValueError"
             /\ call.outcome.message = "EXTERNAL_LLM_API_KEY not configured"

\* The remote variant with an empty credential has raised from
\* analyze_emotion on a text of 17 characters.
C19_Witness ==
    /\ Done("analyze_emotion")
    /\ clf.model_type = "external"
    /\ clf.api_key = PyStr("")
    /\ Len(call.arg.s) >= 10
    /\ call.outcome.kind = "raise"

\* C20: the result parsed from a reply is, for sentiment, positive when the
\* lower-cased reply contains 'positive', else negative when it contains
\* 'negative', else neutral; for emotion, the emotion of the list that the
\* reply contains and that no earlier one of the list is contained too, and
\* neutral when it contains none.
C20_KeywordPriority ==
    (call.pc \in {"http", "done"}) =>
      \A i \in DOMAIN call.replies :
        LET content == StrLower(call.replies[i])
            value == call.items[i].value
        IN  IF call.fn = "analyze_emotion"
            THEN \/ /\ \A k \in 1..Len(Emotions) : ~Contains(content, Emotions[k])
                    /\ value.emotion = "neutral"
                 \/ \E k \in 1..Len(Emotions) :
                       /\ value.emotion = Emotions[k]
                       /\ Contains(content, Emotions[k])
                       /\ \A j \in 1..(k - 1) : ~Contains(content, Emotions[j])
            ELSE value.sentiment_label =
                   CASE Contains(content, "positive") -> "positive"
                     [] ~Contains(content, "positive")
                          /\ Contains(content, "negative") -> "negative"
                     [] OTHER -> "neutral"

\* A reply that names anger before joy has been parsed as joy.
C20_Witness ==
    /\ Done("analyze_emotion")
    /\ 1 \in DOMAIN call.replies
    /\ Find(StrLower(call.replies[1]), "anger") > 0
    /\ Find(StrLower(call.replies[1]), "anger")
         < Find(StrLower(call.replies[1]), "joy")
    /\ call.outcome.value.emotion = "joy"

-----------------------------------------------------------------------------
(* The numbers of the reports *)

\* The stored rows a distribution call of the given arguments made now has
\* in its window: joined to their post, analyzed within the last hours, of
\* the source when one is given.
InWindowNow(hours, source) ==
    { i \in 1..Len(analyses) :
        /\ analyses[i].post_id \in DOMAIN posts
        /\ now - analyses[i].analyzed_at <= hours * HourSeconds
        /\ source = "" \/ posts[analyses[i].post_id].source = source }

\* p, in hundredths of a percent, is 100 * count / total to the nearest
\* hundredth.
NearestHundredth(p, count, total) ==
    LET diff == p * total - 10000 * count
    IN  2 * (IF diff < 0 THEN -diff ELSE diff) <= total

\* C21: the response of get_sentiment_distribution has, for each label, the
\* number of in-window rows of that label, total equal to the sum of the
\* three counts, each percentage equal to 100 * count / total rounded to 2
\* decimals (10/30/60 give 10.0/30.0/60.0 with total 100), and the three
\* percentages 0.0 when total is 0.
C21_DistributionPercentages ==
    \A r \in Requests :
      (reqs[r].pc = "done" /\ reqs[r].kind = "distribution") =>
        LET resp == reqs[r].response
            rows == InWindowNow(reqs[r].hours, reqs[r].source)
            count(l) == Cardinality({i \in rows : analyses[i].sentiment_label = l})
        IN  /\ \A l \in SentimentLabels : resp.distribution[l] = count(l)
            /\ resp.total = count("positive") + count("negative") + count("neutral")
            /\ \A l \in SentimentLabels :
                  IF resp.total = 0 THEN resp.percentages[l] = 0
                  ELSE NearestHundredth(resp.percentages[l], count(l), resp.total)
            /\ resp.distribution = [positive |-> 10, negative |-> 30, neutral |-> 60]
               => /\ resp.total = 100
                  /\ resp.percentages =
                        [positive |-> 1000, negative |-> 3000, neutral |-> 6000]

\* A call has returned the distribution of 10 positive, 30 negative and 60
\* neutral rows, taken from a store that holds a row outside the window too.
C21_Witness ==
    \E r \in Requests :
      /\ reqs[r].pc = "done"
      /\ reqs[r].kind = "distribution"
      /\ Len(analyses) > 100
      /\ reqs[r].response.distribution =
            [positive |-> 10, negative |-> 30, neutral |-> 60]
      /\ reqs[r].response.percentages =
            [positive |-> 1000, negative |-> 3000, neutral |-> 6000]

\* The starts of the time buckets of a requested range.
BucketsOfRange(period, start, end) ==
    LET first == DateTrunc(period, start)
    IN  { first + j * PeriodSeconds(period) :
            j \in 0..((end - first) \div PeriodSeconds(period)) }

\* C22: every time bucket get_sentiment_aggregate reports has each
\* percentage equal to 100 * count / total of the bucket rounded to 2
\* decimals, and every bucket of the requested range is reported, one whose
\* total is 0 with 0.0 for the three percentages and the average confidence.
C22_EveryBucketOfRangeReported ==
    \A r \in Requests :
      (reqs[r].pc = "done" /\ reqs[r].kind = "aggregate" /\ reqs[r].queried) =>
        LET data == reqs[r].response.data IN
        /\ \A k \in 1..Len(data) :
              data[k].total_count > 0 =>
                /\ NearestHundredth(data[k].positive_percentage,
                                    data[k].positive_count, data[k].total_count)
                /\ NearestHundredth(data[k].negative_percentage,
                                    data[k].negative_count, data[k].total_count)
                /\ NearestHundredth(data[k].neutral_percentage,
                                    data[k].neutral_count, data[k].total_count)
        /\ \A b \in BucketsOfRange(reqs[r].period, reqs[r].start, reqs[r].end) :
              \E k \in 1..Len(data) :
                 /\ data[k].timestamp = IsoFormat(b)
                 /\ data[k].total_count = 0 =>
                       /\ data[k].positive_percentage = 0
                       /\ data[k].negative_percentage = 0
                       /\ data[k].neutral_percentage = 0
                       /\ data[k].average_confidence = 0

-----------------------------------------------------------------------------
(* The worker's classifier, its group and its loop *)

\* C23: a worker builds its classifier at most once; it builds it only in a
\* step that starts processing a message, and only when it holds none; once
\* built the instance stays, and a message whose processing got past the
\* classification was classified with the worker holding an instance.
C23_ClassifierBuiltOnce ==
    /\ [](\A w \in Workers :
            /\ hist.constructed[w] <= 1
            /\ analyzer[w] <=> hist.constructed[w] = 1
            /\ \A id \in DOMAIN tasks[w] :
                  tasks[w][id].pc \in {"upsert", "commit", "ack"} => analyzer[w])
    /\ [][\A w \in Workers :
            /\ analyzer[w] => analyzer'[w]
            /\ hist'.constructed[w] # hist.constructed[w]
               => /\ ~analyzer[w]
                  /\ \E id \in DOMAIN tasks[w] :
                        /\ tasks[w][id].pc = "start"
                        /\ tasks'[w][id].pc # "start"]_vars

\* A worker holds two messages of one batch, both past the classification,
\* and has built one classifier; the other worker has built none.
C23_Witness ==
    \E w \in Workers :
      /\ hist.constructed[w] = 1
      /\ Cardinality({id \in DOMAIN tasks[w] : tasks[w][id].pc # "start"}) = 2
      /\ \E v \in Workers \ {w} : hist.constructed[v] = 0 /\ wpc[v] = "poll"

\* C24: when setup() of a worker has completed the consumer group exists,
\* so no worker polls a group that does not exist.
C24_GroupExistsAfterSetup ==
    \A w \in Workers : wpc[w] # "start" => group.exists

\* The messages of the batch worker w is processing that have failed.
FailedInBatch(w) ==
    {id \in DOMAIN tasks[w] : tasks[w][id].pc = "done" /\ ~tasks[w][id].result}

\* C25: in a batch with a failed message every other message can take its
\* next step (unless another transaction holds its post row), the worker
\* leaves the batch only for the next read, it does so once every message
\* of the batch has returned, whatever the results, and the read can then
\* be issued.
C25_FailureStopsNeitherBatchNorWorker ==
    /\ [](\A w \in Workers :
            (wpc[w] = "proc" /\ FailedInBatch(w) # {}) =>
               /\ \A id \in DOMAIN tasks[w] :
                     (tasks[w][id].pc # "done" /\ ~RowLocked(w, id))
                     => ENABLED TaskStep(w, id)
               /\ (\A id \in DOMAIN tasks[w] : tasks[w][id].pc = "done")
                  => ENABLED GatherDone(w))
    /\ [](\A w \in Workers :
            (wpc[w] = "poll" /\ FailedInBatch(w) # {}) => ENABLED XReadGroup(w))
    /\ [][\A w \in Workers :
            wpc[w] = "proc" =>
               \/ wpc'[w] = "proc"
               \/ /\ wpc'[w] = "poll"
                  /\ \A id \in DOMAIN tasks[w] : tasks[w][id].pc = "done"]_vars

\* A worker is back at the read after a batch of two messages: one failed,
\* the other was saved and acknowledged.
C25_Witness ==
    \E w \in Workers :
      /\ wpc[w] = "poll"
      /\ \E id \in FailedInBatch(w) :
            \E other \in DOMAIN tasks[w] \ {id} :
               /\ tasks[w][other].pc = "done"
               /\ tasks[w][other].result
               /\ other \in hist.saved
               /\ other \in hist.acks

-----------------------------------------------------------------------------
(* The keys of the cache *)

\* C26: a call that returns a cached payload returns one that a call with
\* the same source filter has written (the second of the arguments kept with
\* the entry), an omitted source and a source named 'all' being different
\* filters.
C26_HitIsOfSameSource ==
    \A r \in Requests :
      (reqs[r].pc = "done" /\ reqs[r].found.hit)
      => reqs[r].found.by[2] = reqs[r].source

-----------------------------------------------------------------------------
(* A failed acknowledgement after the commit *)

\* The messages whose save committed and whose process_message returned
\* False: the acknowledgement is the only step after the commit.
AckFailedAfterCommit == hist.failed \cap hist.saved

\* C27: a message whose acknowledgement failed after its save committed has
\* process_message return False, stays in the pending list, and its post row
\* and analysis row stay stored; the failing step changes nothing in the
\* store. A later successful processing of the same message data adds one
\* more analysis row after the existing ones and leaves them as they are
\* (the stream id itself is not handed to process_message again).
C27_AckFailureKeepsRows ==
    /\ [](\A id \in AckFailedAfterCommit :
            /\ id \notin hist.acks
            /\ id \notin hist.succeeded
            /\ \E w \in Workers : <<id, w>> \in group.pel
            /\ stream[id].post_id \in DOMAIN posts
            /\ RowsOf(stream[id].post_id) =
                 Cardinality({i \in hist.saved :
                                stream[i].post_id = stream[id].post_id}))
    /\ [][ /\ \A w \in Workers : \A id \in DOMAIN tasks[w] :
                (tasks[w][id].pc = "ack" /\ tasks'[w][id].pc = "done"
                   /\ ~tasks'[w][id].result)
                => /\ posts' = posts
                   /\ analyses' = analyses
                   /\ group'.pel = group.pel
                   /\ id \in hist'.failed
           /\ (AckFailedAfterCommit # {} /\ analyses' # analyses)
              => /\ Len(analyses') = Len(analyses) + 1
                 /\ SubSeq(analyses', 1, Len(analyses)) = analyses ]_vars

\* The acknowledgement of a message failed after its commit, and an entry
\* with the same data has since been processed successfully: the post has
\* two analysis rows.
C27_Witness ==
    \E id \in AckFailedAfterCommit : \E other \in hist.succeeded :
      /\ other # id
      /\ stream[other] = stream[id]
      /\ RowsOf(stream[id].post_id) = 2

-----------------------------------------------------------------------------
(* The default end of get_sentiment_aggregate *)

\* C28: a get_sentiment_aggregate call made with end omitted takes the
\* clock value of the call as its end, and 24 hours before it as its start
\* when the start is omitted too; both are in its cache key; keys of calls
\* made at different instants differ; such a call never returns an entry
\* written before its own instant, and when its cache read does not raise
\* and finds nothing it queries the store.
C28_OmittedEndNeverHitsEarlierEntry ==
    \A r \in Requests :
      (/\ reqs[r].pc # "idle"
       /\ reqs[r].kind = "aggregate"
       /\ reqs[r].clockRead.given) =>
        LET req == reqs[r] IN
        /\ req.end = req.clockRead.at
        /\ req.start = req.end - DefaultRangeHours * HourSeconds
        /\ req.key = AggregateKey(req.period, req.source, req.start, req.end)
        /\ \A t \in 0..MaxClock :
              t # req.end =>
                 req.key # AggregateKey(req.period, req.source,
                                        t - DefaultRangeHours * HourSeconds, t)
        /\ req.found.hit => req.found.at = req.clockRead.at
        /\ (req.pc = "done" /\ req.redis /\ ~req.found.hit) => req.queried

\* A call with end omitted has queried the store while the cache held an
\* unexpired entry that a call with end omitted, of the same period and
\* source, wrote at an earlier instant.
C28_Witness ==
    \E r \in Requests :
      /\ reqs[r].pc = "done"
      /\ reqs[r].kind = "aggregate"
      /\ reqs[r].clockRead.given
      /\ reqs[r].redis
      /\ ~reqs[r].getRaised
      /\ reqs[r].queried
      /\ \E k \in DOMAIN cache :
            /\ now < cache[k].expires
            /\ cache[k].at < reqs[r].clockRead.at
            /\ cache[k].at > 0
            /\ cache[k].by = <<reqs[r].period, reqs[r].source,
                               cache[k].at - DefaultRangeHours * HourSeconds,
                               cache[k].at>>

-----------------------------------------------------------------------------
(* The stored alerts *)

\* C29: every stored alert row has post_count at least min_posts,
\* post_count equal to the sum of the three counts of details, and
\* actual_value strictly greater than threshold_value, whatever threshold
\* and min_posts the service is configured with.
C29_StoredAlertIsConsistent ==
    \A i \in 1..Len(alerts) :
      /\ alerts[i].post_count >= conf.min_posts
      /\ alerts[i].post_count =
           alerts[i].details.positive_count + alerts[i].details.negative_count
             + alerts[i].details.neutral_count
      /\ alerts[i].threshold_value = conf.threshold
      /\ ~alerts[i].actual_value.inf
         => alerts[i].actual_value.num * 100
              > alerts[i].threshold_value * alerts[i].actual_value.den

=============================================================================
